---- MODULE Spec2Model ----
(***************************************************************************)
(* Model of the modal text-editing engine of reapo                         *)
(* (internal/tui/components/vimtextarea).  The engine state is the Go      *)
(* struct Model; every handler is a Go value-receiver method Model ->      *)
(* Model and is written here as an operator on the record of the same      *)
(* name.  Rows, columns and the undo index are 0-based as in the Go code;  *)
(* lines are sequences of one-character strings (bytes).                   *)
(***************************************************************************)
EXTENDS Integers, Sequences, FiniteSets, TLC

(* ------------------------------ bounds --------------------------------- *)
\* largest number of buffer lines explored
MaxLines == 2
\* largest line length (bytes) explored
MaxLineLen == 2
\* largest line length explored in the runs of unbounded length
MaxEditLen == 1
\* largest number of undo snapshots explored under New()'s capacity
MaxStates == 4
\* largest typed repeat count explored
MaxCount == 2
\* largest number of key events in one explored run
MaxKeys == 7

(* ------------------------- Go-level helpers ---------------------------- *)
Min(a, b) == IF a < b THEN a ELSE b
Max(a, b) == IF a > b THEN a ELSE b

\* Go s[i:j] on a 0-based slice or string
Slice(s, i, j) == SubSeq(s, i + 1, j)
\* Go s[i]
At(s, i) == s[i + 1]
\* Go s[i] = v   (in-place element write)
SetAt(s, i, v) == [s EXCEPT ![i + 1] = v]

Pos(r, c) == [Row |-> r, Col |-> c]

\* the line separator byte
NL == "\n"

\* strings.Join(lines, "\n")
RECURSIVE Join(_)
Join(lines) ==
    IF Len(lines) = 0 THEN <<>>
    ELSE IF Len(lines) = 1 THEN lines[1]
    ELSE lines[1] \o <<NL>> \o Join(Tail(lines))

\* strings.Contains(s, "\n")
ContainsNL(s) == \E i \in 1..Len(s) : s[i] = NL

\* strings.Split(s, "\n")
RECURSIVE Split(_)
Split(s) ==
    IF ~ContainsNL(s) THEN <<s>>
    ELSE LET i == CHOOSE k \in 1..Len(s) : s[k] = NL /\ \A j \in 1..(k - 1) : s[j] # NL
         IN <<SubSeq(s, 1, i - 1)>> \o Split(SubSeq(s, i + 1, Len(s)))

\* unicode.IsSpace / unicode.IsPunct on the ASCII bytes used as input
IsSpace(c) == c \in {" ", "\t", "\n"}
IsPunct(c) == c \in {"/", ".", ",", "@", "!", "?", ";", "_", "-"}

(* ------------------------------ types ---------------------------------- *)
Normal == "Normal"
Insert == "Insert"
Visual == "Visual"

\* Go nil for the *Selection field
NoSelection == [Start |-> Pos(-1, -1), End |-> Pos(-1, -1)]

\* CommandState{}
EmptyCommandState ==
    [operator |-> "", count |-> 0, motionCount |-> 0, awaitingMotion |-> FALSE]

\* completion.CompletionState after Reset()
EmptyCompletionState == [Active |-> FALSE, Trigger |-> "", Items |-> 0]

(* ----------------------------- movement -------------------------------- *)
isWordBoundary(char, isWORD) ==
    IF isWORD THEN IsSpace(char) ELSE IsSpace(char) \/ IsPunct(char)

\* validateCursor without the Normal-mode limit on the last column
validateCursorNoNormalLimit(m, pos) ==
    IF Len(m.content) = 0 THEN Pos(0, 0)
    ELSE LET row == Min(Max(0, pos.Row), Len(m.content) - 1)
         IN Pos(row, Min(Max(0, pos.Col), Len(At(m.content, row))))

validateCursor(m, pos) ==
    IF Len(m.content) = 0 THEN Pos(0, 0)
    ELSE LET row == Min(Max(0, pos.Row), Len(m.content) - 1)
             len == Len(At(m.content, row))
             maxCol == IF m.mode = Normal /\ len > 0 THEN len - 1 ELSE len
         IN Pos(row, Min(Max(0, pos.Col), maxCol))

moveLeft(m, count) == Pos(m.cursor.Row, Max(0, m.cursor.Col - count))

moveRight(m, count) ==
    IF m.cursor.Row < Len(m.content)
    THEN Pos(m.cursor.Row, Min(Len(At(m.content, m.cursor.Row)), m.cursor.Col + count))
    ELSE m.cursor

moveUp(m, count) == validateCursor(m, Pos(Max(0, m.cursor.Row - count), m.cursor.Col))

moveDown(m, count) ==
    validateCursor(m, Pos(Min(Len(m.content) - 1, m.cursor.Row + count), m.cursor.Col))

moveToFirstNonWhitespace(m) ==
    IF m.cursor.Row < Len(m.content)
    THEN LET line == At(m.content, m.cursor.Row)
             nonSpace == {i \in 0..(Len(line) - 1) : ~IsSpace(At(line, i))}
         IN IF nonSpace = {} THEN m.cursor
            ELSE Pos(m.cursor.Row, CHOOSE i \in nonSpace : \A j \in nonSpace : i <= j)
    ELSE m.cursor

moveToEndOfLine(m) ==
    IF m.cursor.Row < Len(m.content)
    THEN Pos(m.cursor.Row, Max(0, Len(At(m.content, m.cursor.Row))))
    ELSE m.cursor

moveToLine(m, line) ==
    validateCursor(m, Pos(Min(Max(0, line), Len(m.content) - 1), 0))

moveToLastLine(m) ==
    validateCursor(m, Pos(IF Len(m.content) - 1 < 0 THEN 0 ELSE Len(m.content) - 1, 0))

\* the loop  for col < len(line) && !isWordBoundary(line[col]) { col++ }
RECURSIVE skipWord(_, _, _)
skipWord(line, col, isWORD) ==
    IF col < Len(line) /\ ~isWordBoundary(At(line, col), isWORD)
    THEN skipWord(line, col + 1, isWORD) ELSE col

\* the loop  for col < len(line) && unicode.IsSpace(line[col]) { col++ }
RECURSIVE skipSpace(_, _)
skipSpace(line, col) ==
    IF col < Len(line) /\ IsSpace(At(line, col)) THEN skipSpace(line, col + 1) ELSE col

nextWord(m, pos, isWORD) ==
    IF pos.Row >= Len(m.content) THEN pos
    ELSE LET line == At(m.content, pos.Row)
             col == skipSpace(line, skipWord(line, pos.Col, isWORD))
         IN IF col >= Len(line) /\ pos.Row < Len(m.content) - 1
            THEN Pos(pos.Row + 1, 0)
            ELSE Pos(pos.Row, col)

\* the loop  for col > 0 && unicode.IsSpace(line[col]) { col-- }
RECURSIVE skipSpaceBack(_, _)
skipSpaceBack(line, col) ==
    IF col > 0 /\ IsSpace(At(line, col)) THEN skipSpaceBack(line, col - 1) ELSE col

\* the loop  for col > 0 && !isWordBoundary(line[col-1]) { col-- }
RECURSIVE skipWordBack(_, _, _)
skipWordBack(line, col, isWORD) ==
    IF col > 0 /\ ~isWordBoundary(At(line, col - 1), isWORD)
    THEN skipWordBack(line, col - 1, isWORD) ELSE col

prevWord(m, pos, isWORD) ==
    IF pos.Row < 0 THEN pos
    ELSE LET line == At(m.content, pos.Row)
             col0 == IF pos.Col > 0 THEN pos.Col - 1 ELSE pos.Col
         IN Pos(pos.Row, skipWordBack(line, skipSpaceBack(line, col0), isWORD))

\* the loop  for col < len(line) && (IsSpace(line[col]) || isWordBoundary(line[col])) { col++ }
RECURSIVE skipBoundary(_, _, _)
skipBoundary(line, col, isWORD) ==
    IF col < Len(line) /\ (IsSpace(At(line, col)) \/ isWordBoundary(At(line, col), isWORD))
    THEN skipBoundary(line, col + 1, isWORD) ELSE col

\* the end-of-line branch of nextWordEnd: last character of the first word
\* of the next line, found from its first non-whitespace byte
firstWordEndOf(nextLine, isWORD) ==
    LET nonSpace == {i \in 0..(Len(nextLine) - 1) : ~IsSpace(At(nextLine, i))}
    IN IF nonSpace = {} THEN -1
       ELSE LET i == CHOOSE k \in nonSpace : \A j \in nonSpace : k <= j
                stop == skipWord(nextLine, i, isWORD)
            IN IF stop > i THEN stop - 1 ELSE i

RECURSIVE nextWordEnd(_, _, _)
nextWordEnd(m, pos, isWORD) ==
    IF pos.Row >= Len(m.content) THEN pos
    ELSE LET line == At(m.content, pos.Row)
         IN IF pos.Col >= Len(line)
            THEN IF pos.Row < Len(m.content) - 1
                      /\ firstWordEndOf(At(m.content, pos.Row + 1), isWORD) >= 0
                 THEN Pos(pos.Row + 1, firstWordEndOf(At(m.content, pos.Row + 1), isWORD))
                 ELSE pos
            ELSE LET atWordEnd ==
                         /\ ~isWordBoundary(At(line, pos.Col), isWORD)
                         /\ (pos.Col + 1 >= Len(line)
                             \/ isWordBoundary(At(line, pos.Col + 1), isWORD))
                     col1 == IF atWordEnd THEN pos.Col + 1 ELSE pos.Col
                     col2 == skipBoundary(line, col1, isWORD)
                 IN IF col2 >= Len(line)
                    THEN IF pos.Row < Len(m.content) - 1
                         THEN nextWordEnd(m, Pos(pos.Row + 1, 0), isWORD)
                         ELSE pos
                    ELSE LET col3 == skipWord(line, col2, isWORD)
                         IN Pos(pos.Row, IF col3 > 0 THEN col3 - 1 ELSE col3)

\* for i := 0; i < count; i++ { pos = step(pos) }
RECURSIVE repeatNextWord(_, _, _, _)
repeatNextWord(m, pos, isWORD, count) ==
    IF count <= 0 THEN pos ELSE repeatNextWord(m, nextWord(m, pos, isWORD), isWORD, count - 1)

RECURSIVE repeatPrevWord(_, _, _, _)
repeatPrevWord(m, pos, isWORD, count) ==
    IF count <= 0 THEN pos ELSE repeatPrevWord(m, prevWord(m, pos, isWORD), isWORD, count - 1)

RECURSIVE repeatNextWordEnd(_, _, _, _)
repeatNextWordEnd(m, pos, isWORD, count) ==
    IF count <= 0 THEN pos
    ELSE repeatNextWordEnd(m, nextWordEnd(m, pos, isWORD), isWORD, count - 1)

moveWordForward(m, count) == repeatNextWord(m, m.cursor, FALSE, count)
moveWORDForward(m, count) == repeatNextWord(m, m.cursor, TRUE, count)
moveWordBackward(m, count) == repeatPrevWord(m, m.cursor, FALSE, count)
moveWORDBackward(m, count) == repeatPrevWord(m, m.cursor, TRUE, count)
moveWordEnd(m, count) == repeatNextWordEnd(m, m.cursor, FALSE, count)
moveWORDEnd(m, count) == repeatNextWordEnd(m, m.cursor, TRUE, count)

adjustScroll(m) ==
    IF Len(m.content) <= m.height THEN [m EXCEPT !.scrollOffset = 0]
    ELSE LET s1 == IF m.cursor.Row < m.scrollOffset THEN m.cursor.Row ELSE m.scrollOffset
             s2 == IF m.cursor.Row >= s1 + m.height THEN m.cursor.Row - m.height + 1 ELSE s1
             s3 == IF s2 < 0 THEN 0 ELSE s2
             maxOffset == IF Len(m.content) - m.height < 0 THEN 0
                          ELSE Len(m.content) - m.height
         IN [m EXCEPT !.scrollOffset = IF s3 > maxOffset THEN maxOffset ELSE s3]

(* --------------------------- undo history ------------------------------ *)
contentEquals(m, other) ==
    /\ Len(m.content) = Len(other)
    /\ \A i \in 0..(Len(m.content) - 1) : At(m.content, i) = At(other, i)

\* saveUndoState that never evicts the oldest snapshot
saveUndoStateNoEviction(m) ==
    LET h == m.undoHistory
        duplicate == /\ h.index >= 0
                     /\ h.index < Len(h.states)
                     /\ contentEquals(m, At(h.states, h.index).content)
        kept == IF h.index < Len(h.states) - 1
                THEN Slice(h.states, 0, h.index + 1) ELSE h.states
    IN IF duplicate THEN m
       ELSE [m EXCEPT !.undoHistory.states =
                          Append(kept, [content |-> m.content, cursor |-> m.cursor]),
                      !.undoHistory.index = h.index + 1]

saveUndoState(m) ==
    LET h == m.undoHistory
        duplicate == /\ h.index >= 0
                     /\ h.index < Len(h.states)
                     /\ contentEquals(m, At(h.states, h.index).content)
        state == [content |-> m.content, cursor |-> m.cursor]
        kept == IF h.index < Len(h.states) - 1
                THEN Slice(h.states, 0, h.index + 1) ELSE h.states
        appended == Append(kept, state)
    IN IF duplicate THEN m
       ELSE IF Len(appended) > h.maxSize
            THEN [m EXCEPT !.undoHistory.states = Tail(appended),
                           !.undoHistory.index = h.index + 1 - 1]
            ELSE [m EXCEPT !.undoHistory.states = appended,
                           !.undoHistory.index = h.index + 1]

startInsertSession(m) ==
    IF ~m.inInsertSession THEN [m EXCEPT !.inInsertSession = TRUE] ELSE m

endInsertSession(m) ==
    IF m.inInsertSession
    THEN [saveUndoState(m) EXCEPT !.inInsertSession = FALSE]
    ELSE m

\* undo that restores the lines but keeps the live cursor
undoKeepsCursor(m) ==
    IF m.undoHistory.index <= 0 THEN m
    ELSE LET idx == m.undoHistory.index - 1
         IN adjustScroll([m EXCEPT !.undoHistory.index = idx,
                                   !.content = At(m.undoHistory.states, idx).content])

undo(m) ==
    IF m.undoHistory.index <= 0 THEN m
    ELSE LET idx == m.undoHistory.index - 1
             state == At(m.undoHistory.states, idx)
         IN adjustScroll([m EXCEPT !.undoHistory.index = idx,
                                   !.content = state.content,
                                   !.cursor = state.cursor])

redo(m) ==
    IF m.undoHistory.index >= Len(m.undoHistory.states) - 1 THEN m
    ELSE LET idx == m.undoHistory.index + 1
             state == At(m.undoHistory.states, idx)
         IN adjustScroll([m EXCEPT !.undoHistory.index = idx,
                                   !.content = state.content,
                                   !.cursor = state.cursor])

(* --------------------------- text editing ------------------------------ *)
insertText(m, text) ==
    IF m.cursor.Row >= Len(m.content) THEN m
    ELSE LET line == At(m.content, m.cursor.Row)
             before == Slice(line, 0, m.cursor.Col)
             after == Slice(line, m.cursor.Col, Len(line))
         IN [m EXCEPT !.content = SetAt(m.content, m.cursor.Row, before \o text \o after),
                      !.cursor.Col = m.cursor.Col + Len(text)]

\* make([]string, n+1) filled by the three copies of insertNewLine*
insertLineAt(content, row, line) ==
    Slice(content, 0, row) \o <<line>> \o Slice(content, row, Len(content))

\* the trailing m.adjustScroll() drops its result: scrollOffset is not updated
insertNewLine(m) ==
    IF m.cursor.Row >= Len(m.content) THEN m
    ELSE LET line == At(m.content, m.cursor.Row)
             before == Slice(line, 0, m.cursor.Col)
             after == Slice(line, m.cursor.Col, Len(line))
             written == SetAt(m.content, m.cursor.Row, before)
         IN [m EXCEPT !.content = insertLineAt(written, m.cursor.Row + 1, after),
                      !.cursor = Pos(m.cursor.Row + 1, 0)]

insertNewLineBelow(m) ==
    [m EXCEPT !.content = insertLineAt(m.content, m.cursor.Row + 1, <<>>),
              !.cursor = Pos(m.cursor.Row + 1, 0)]

insertNewLineAbove(m) ==
    [m EXCEPT !.content = insertLineAt(m.content, m.cursor.Row, <<>>),
              !.cursor.Col = 0]

\* make([]string, n-k) filled with the lines outside rows first..last
removeLines(content, first, last) ==
    Slice(content, 0, first) \o Slice(content, last + 1, Len(content))

backspace(m) ==
    IF m.cursor.Col > 0
    THEN LET line == At(m.content, m.cursor.Row)
             before == Slice(line, 0, m.cursor.Col - 1)
             after == Slice(line, m.cursor.Col, Len(line))
         IN adjustScroll([m EXCEPT !.content = SetAt(m.content, m.cursor.Row, before \o after),
                                   !.cursor.Col = m.cursor.Col - 1])
    ELSE IF m.cursor.Row > 0
    THEN LET prevLine == At(m.content, m.cursor.Row - 1)
             currentLine == At(m.content, m.cursor.Row)
             joined == SetAt(m.content, m.cursor.Row - 1, prevLine \o currentLine)
         IN adjustScroll([m EXCEPT !.content = removeLines(joined, m.cursor.Row, m.cursor.Row),
                                   !.cursor = Pos(m.cursor.Row - 1, Len(prevLine))])
    ELSE adjustScroll(m)

\* one iteration of deleteChar's loop
deleteCharOnce(m) ==
    IF m.cursor.Row < Len(m.content)
    THEN LET line == At(m.content, m.cursor.Row)
         IN IF m.cursor.Col < Len(line)
            THEN [m EXCEPT !.content =
                     SetAt(m.content, m.cursor.Row,
                           Slice(line, 0, m.cursor.Col) \o Slice(line, m.cursor.Col + 1, Len(line)))]
            ELSE m
    ELSE m

RECURSIVE deleteCharLoop(_, _)
deleteCharLoop(m, count) ==
    IF count <= 0 THEN m ELSE deleteCharLoop(deleteCharOnce(m), count - 1)

\* deleteChar that also stores the removed characters in the clipboard
deleteCharIntoClipboard(m, count) ==
    LET line == At(m.content, m.cursor.Row)
        removed == Slice(line, m.cursor.Col, Min(m.cursor.Col + count, Len(line)))
    IN IF count > 0
       THEN saveUndoState([deleteCharLoop(m, count) EXCEPT !.clipboard = removed])
       ELSE deleteCharLoop(m, count)

deleteChar(m, count) ==
    IF count > 0 THEN saveUndoState(deleteCharLoop(m, count)) ELSE deleteCharLoop(m, count)

\* the loop of replaceCharacter, i = 0, 1, ... on the local copy of the line
RECURSIVE replaceLoop(_, _, _, _, _)
replaceLoop(line, col, replacement, count, i) ==
    IF i < count /\ col + i < Len(line)
    THEN replaceLoop(Slice(line, 0, col + i) \o replacement \o Slice(line, col + i + 1, Len(line)),
                     col, replacement, count, i + 1)
    ELSE line

replaceCharacter(m, replacement, count) ==
    IF m.cursor.Row >= Len(m.content) THEN m
    ELSE LET line == replaceLoop(At(m.content, m.cursor.Row), m.cursor.Col, replacement, count, 0)
         IN saveUndoState([m EXCEPT !.content = SetAt(m.content, m.cursor.Row, line)])

\* the lines startRow..endRow collected by deleteLines / yankLines
linesFrom(m, count) ==
    LET startRow == m.cursor.Row
        endRow == Min(startRow + count - 1, Len(m.content) - 1)
    IN Slice(m.content, startRow, Max(startRow, endRow + 1))

\* deleteLines that removes the lines in the delete-everything case too
deleteLinesNoCollapse(m, count) ==
    LET startRow == m.cursor.Row
        endRow == Min(startRow + count - 1, Len(m.content) - 1)
        newContent == Slice(m.content, 0, startRow)
                        \o Slice(m.content, endRow + 1, Len(m.content))
        row == IF m.cursor.Row >= Len(newContent) THEN Len(newContent) - 1 ELSE m.cursor.Row
    IN saveUndoState(adjustScroll([m EXCEPT !.clipboard = Join(linesFrom(m, count)),
                                            !.content = newContent,
                                            !.cursor = Pos(Max(0, row), 0)]))

deleteLines(m, count) ==
    LET startRow == m.cursor.Row
        endRow == Min(startRow + count - 1, Len(m.content) - 1)
        deletedLines == linesFrom(m, count)
        yanked == [m EXCEPT !.clipboard = Join(deletedLines)]
    IN IF Len(m.content) <= count
       THEN saveUndoState([yanked EXCEPT !.content = << <<>> >>, !.cursor = Pos(0, 0)])
       ELSE LET newContent == Slice(m.content, 0, startRow)
                                \o Slice(m.content, endRow + 1, Len(m.content))
                row == IF m.cursor.Row >= Len(newContent) THEN Len(newContent) - 1
                       ELSE m.cursor.Row
            IN saveUndoState(adjustScroll([yanked EXCEPT !.content = newContent,
                                                         !.cursor = Pos(row, 0)]))

yankLines(m, count) == [m EXCEPT !.clipboard = Join(linesFrom(m, count))]

yankLine(m) ==
    IF m.cursor.Row < Len(m.content)
    THEN [m EXCEPT !.clipboard = At(m.content, m.cursor.Row)]
    ELSE m

deleteToEndOfLine(m) ==
    IF m.cursor.Row < Len(m.content) /\ m.cursor.Col < Len(At(m.content, m.cursor.Row))
    THEN LET line == At(m.content, m.cursor.Row)
         IN saveUndoState([m EXCEPT !.clipboard = Slice(line, m.cursor.Col, Len(line)),
                                    !.content = SetAt(m.content, m.cursor.Row,
                                                      Slice(line, 0, m.cursor.Col))])
    ELSE saveUndoState(m)

changeToEndOfLine(m) ==
    [startInsertSession(deleteToEndOfLine(m)) EXCEPT !.mode = Insert]

changeLines(m, count) ==
    [startInsertSession(deleteLines(m, count)) EXCEPT !.mode = Insert]

\* the text of the range startPos..endPos as deleteRange / yankRange collect it
rangeText(m, startPos, endPos) ==
    IF startPos.Row = endPos.Row
    THEN Slice(At(m.content, startPos.Row), startPos.Col, endPos.Col)
    ELSE LET firstLine == At(m.content, startPos.Row)
             first == <<Slice(firstLine, startPos.Col, Len(firstLine))>>
             middle == Slice(m.content, startPos.Row + 1, endPos.Row)
             last == IF endPos.Row < Len(m.content)
                     THEN <<Slice(At(m.content, endPos.Row), 0, endPos.Col)>>
                     ELSE <<>>
         IN Join(first \o middle \o last)

deleteRange(m, startPos, endPos) ==
    IF startPos.Row = endPos.Row
    THEN LET line == At(m.content, startPos.Row)
             before == Slice(line, 0, startPos.Col)
             after == Slice(line, endPos.Col, Len(line))
         IN saveUndoState([m EXCEPT !.clipboard = Slice(line, startPos.Col, endPos.Col),
                                    !.content = SetAt(m.content, startPos.Row, before \o after),
                                    !.cursor = startPos])
    ELSE LET before == Slice(At(m.content, startPos.Row), 0, startPos.Col)
             after == IF endPos.Row < Len(m.content)
                      THEN Slice(At(m.content, endPos.Row), endPos.Col,
                                 Len(At(m.content, endPos.Row)))
                      ELSE <<>>
             newContent == Slice(m.content, 0, startPos.Row) \o <<before \o after>>
                             \o Slice(m.content, endPos.Row + 1, Len(m.content))
         IN saveUndoState([m EXCEPT !.clipboard = rangeText(m, startPos, endPos),
                                    !.content = newContent,
                                    !.cursor = startPos])

yankRange(m, startPos, endPos) ==
    [m EXCEPT !.clipboard = rangeText(m, startPos, endPos)]

changeRange(m, startPos, endPos) ==
    [startInsertSession(deleteRange(m, startPos, endPos)) EXCEPT !.mode = Insert]

normalizeSelection(sel) ==
    IF sel.Start.Row > sel.End.Row
       \/ (sel.Start.Row = sel.End.Row /\ sel.Start.Col > sel.End.Col)
    THEN [Start |-> sel.End, End |-> sel.Start]
    ELSE sel

\* the multi-line text collected by deleteSelection / yankSelection
selectionText(m, start, end) ==
    Join(<<Slice(At(m.content, start.Row), start.Col, Len(At(m.content, start.Row)))>>
         \o Slice(m.content, start.Row + 1, end.Row)
         \o <<Slice(At(m.content, end.Row), 0, end.Col)>>)

deleteSelection(m) ==
    IF m.selection = NoSelection THEN m
    ELSE LET n == normalizeSelection(m.selection)
             start == n.Start
             end == n.End
         IN IF start.Row = end.Row
            THEN LET line == At(m.content, start.Row)
                 IN saveUndoState(
                      [m EXCEPT !.content =
                                   SetAt(m.content, start.Row,
                                         Slice(line, 0, start.Col) \o Slice(line, end.Col, Len(line))),
                                !.cursor = start])
            ELSE LET before == Slice(At(m.content, start.Row), 0, start.Col)
                     after == Slice(At(m.content, end.Row), end.Col, Len(At(m.content, end.Row)))
                     newContent == Slice(m.content, 0, start.Row) \o <<before \o after>>
                                     \o Slice(m.content, end.Row + 1, Len(m.content))
                 IN saveUndoState([m EXCEPT !.clipboard = selectionText(m, start, end),
                                            !.content = newContent,
                                            !.cursor = start])

yankSelection(m) ==
    IF m.selection = NoSelection THEN m
    ELSE LET n == normalizeSelection(m.selection)
             start == n.Start
             end == n.End
         IN IF start.Row = end.Row
            THEN [m EXCEPT !.clipboard = Slice(At(m.content, start.Row), start.Col, end.Col)]
            ELSE [m EXCEPT !.clipboard = selectionText(m, start, end)]

pasteAfter(m) ==
    IF m.clipboard = <<>> THEN m
    ELSE IF ContainsNL(m.clipboard)
    THEN LET lines == Split(m.clipboard)
             newContent == Slice(m.content, 0, m.cursor.Row + 1) \o lines
                             \o Slice(m.content, m.cursor.Row + 1, Len(m.content))
         IN saveUndoState([m EXCEPT !.content = newContent,
                                    !.cursor = Pos(m.cursor.Row + 1, 0)])
    ELSE saveUndoState(insertText([m EXCEPT !.cursor = moveRight(m, 1)], m.clipboard))

\* pasteBefore that pastes a text without line break behind the cursor
pasteBeforeBehindCursor(m) ==
    IF m.clipboard = <<>> THEN m
    ELSE IF ContainsNL(m.clipboard)
    THEN LET lines == Split(m.clipboard)
             newContent == Slice(m.content, 0, m.cursor.Row) \o lines
                             \o Slice(m.content, m.cursor.Row, Len(m.content))
         IN saveUndoState([m EXCEPT !.content = newContent, !.cursor.Col = 0])
    ELSE saveUndoState(insertText([m EXCEPT !.cursor = moveRight(m, 1)], m.clipboard))

pasteBefore(m) ==
    IF m.clipboard = <<>> THEN m
    ELSE IF ContainsNL(m.clipboard)
    THEN LET lines == Split(m.clipboard)
             newContent == Slice(m.content, 0, m.cursor.Row) \o lines
                             \o Slice(m.content, m.cursor.Row, Len(m.content))
         IN saveUndoState([m EXCEPT !.content = newContent, !.cursor.Col = 0])
    ELSE saveUndoState(insertText(m, m.clipboard))

(* ----------------------------- completion ------------------------------ *)
\* completion.slashCommands, the texts the engine offers for trigger '/'
slashCommands ==
    << <<"/", "h", "e", "l", "p">>,
       <<"/", "c", "l", "e", "a", "r">>,
       <<"/", "e", "d", "i", "t", "o", "r">> >>

\* strings.ToLower on the bytes used as input
ToLower(c) ==
    LET upper == <<"A", "B", "C", "D", "E", "F", "G", "H", "I", "J", "K", "L", "M",
                   "N", "O", "P", "Q", "R", "S", "T", "U", "V", "W", "X", "Y", "Z">>
        lower == <<"a", "b", "c", "d", "e", "f", "g", "h", "i", "j", "k", "l", "m",
                   "n", "o", "p", "q", "r", "s", "t", "u", "v", "w", "x", "y", "z">>
        found == {i \in 1..Len(upper) : upper[i] = c}
    IN IF found = {} THEN c ELSE lower[CHOOSE i \in found : TRUE]

\* calculateScore(query, text) > 0 for a non-empty query: equality and prefix
\* are special cases of the in-order match of every query byte
RECURSIVE matchesInOrder(_, _)
matchesInOrder(query, text) ==
    IF Len(query) = 0 THEN TRUE
    ELSE IF Len(text) = 0 THEN FALSE
    ELSE IF ToLower(Head(text)) = ToLower(Head(query))
         THEN matchesInOrder(Tail(query), Tail(text))
         ELSE matchesInOrder(query, Tail(text))

\* len(FuzzyMatch(query, items))
FuzzyMatch(query, items) ==
    IF query = <<>> THEN Len(items)
    ELSE Cardinality({i \in 1..Len(items) : matchesInOrder(query, items[i])})

\* strings.HasPrefix(q, trigger): q[1:] if it holds, else q
stripPrefix(q, trigger) ==
    IF Len(q) > 0 /\ Head(q) = trigger THEN Tail(q) ELSE q

\* len(engine.GetCompletions(trigger, query)); file completions ('@') come
\* from the host's working directory, taken to hold no matching entry
GetCompletions(trigger, query) ==
    IF trigger = "/" THEN FuzzyMatch(stripPrefix(query, "/"), slashCommands) ELSE 0

shouldTriggerCompletion(m, char) ==
    IF m.cursor.Row >= Len(m.content) THEN FALSE
    ELSE LET line == At(m.content, m.cursor.Row)
         IN IF char = "/" THEN m.cursor.Col = 0
            ELSE IF char = "@"
            THEN IF m.cursor.Col = 0 THEN TRUE
                 ELSE IF m.cursor.Col > 0 /\ m.cursor.Col <= Len(line)
                 THEN At(line, m.cursor.Col - 1) # "\\" /\ At(line, m.cursor.Col - 1) # "\""
                 ELSE FALSE
            ELSE FALSE

\* [query, startPos] of extractCompletionQuery
extractCompletionQuery(m, trigger) ==
    IF m.cursor.Row >= Len(m.content) THEN [query |-> <<>>, startPos |-> m.cursor]
    ELSE LET line == At(m.content, m.cursor.Row)
             found == {i \in 0..m.cursor.Col : i < Len(line) /\ At(line, i) = trigger}
             startPos == IF found = {} THEN m.cursor
                         ELSE Pos(m.cursor.Row, CHOOSE i \in found : \A j \in found : j <= i)
         IN IF startPos.Col < Len(line) /\ m.cursor.Col <= Len(line)
            THEN [query |-> Slice(line, startPos.Col, m.cursor.Col), startPos |-> startPos]
            ELSE [query |-> <<>>, startPos |-> startPos]

\* updateCompletionItems with the query the caller has just stored
updateCompletionItems(m, query) ==
    IF ~m.completionEngine THEN m
    ELSE LET items == GetCompletions(m.completionState.Trigger, query)
         IN IF items = 0 THEN [m EXCEPT !.completionState = EmptyCompletionState]
            ELSE [m EXCEPT !.completionState.Items = items]

triggerCompletion(m, trigger) ==
    LET q == extractCompletionQuery(m, trigger)
    IN updateCompletionItems(
         [m EXCEPT !.completionState.Active = TRUE,
                   !.completionState.Trigger = trigger,
                   !.completionStartPos = q.startPos],
         stripPrefix(q.query, trigger))

updateCompletion(m) ==
    IF ~m.completionState.Active THEN m
    ELSE LET q == extractCompletionQuery(m, m.completionState.Trigger)
             moved == [m EXCEPT !.completionStartPos = q.startPos]
         IN IF ~(\E i \in 1..Len(q.query) : q.query[i] = m.completionState.Trigger)
            THEN [moved EXCEPT !.completionState = EmptyCompletionState]
            ELSE updateCompletionItems(moved, stripPrefix(q.query, m.completionState.Trigger))

\* the backward scan of checkAndTriggerCompletion from column i:
\* the trigger to start ("/" or "@"), or "" when the scan stops without one
RECURSIVE scanForTrigger(_, _)
scanForTrigger(line, i) ==
    IF i < 0 THEN ""
    ELSE LET char == At(line, i)
         IN IF char = "@"
            THEN IF i = 0 \/ At(line, i - 1) # "\\" THEN "@" ELSE ""
            ELSE IF char = "/" /\ i = 0 THEN "/"
            ELSE IF char \in {" ", "\t", "\n", ",", ";", ".", "!", "?"} THEN ""
            ELSE scanForTrigger(line, i - 1)

checkAndTriggerCompletion(m) ==
    IF m.completionState.Active THEN updateCompletion(m)
    ELSE IF m.cursor.Row >= Len(m.content) \/ m.cursor.Col = 0 THEN m
    ELSE IF m.cursor.Col > Len(At(m.content, m.cursor.Row)) THEN m
    ELSE LET trigger == scanForTrigger(At(m.content, m.cursor.Row), m.cursor.Col - 1)
         IN IF trigger = "" THEN m ELSE triggerCompletion(m, trigger)

(* ------------------------------- keys ---------------------------------- *)
\* tea.KeyMsg.String() of the keys that are not a single printable byte
NamedKeys ==
    {"esc", "enter", "backspace", "tab", "left", "right", "up", "down",
     "ctrl+r", "ctrl+n", "ctrl+p", "ctrl+y"}

\* len(key) == 1
IsSingleByte(key) == key \notin NamedKeys

\* msg.Runes: the typed byte of a printable key, empty for a named key
Runes(key) == IF key \in NamedKeys THEN <<>> ELSE <<key>>

Digits == {"0", "1", "2", "3", "4", "5", "6", "7", "8", "9"}

\* int(key[0] - '0')
DigitValue(key) ==
    CASE key = "0" -> 0 [] key = "1" -> 1 [] key = "2" -> 2 [] key = "3" -> 3
      [] key = "4" -> 4 [] key = "5" -> 5 [] key = "6" -> 6 [] key = "7" -> 7
      [] key = "8" -> 8 [] key = "9" -> 9

(* --------------------------- command handlers -------------------------- *)
\* The call m.replaceCharacter(key, m.replaceCount) in handleNormalMode drops
\* the returned Model.  What the caller keeps is what the callee wrote through
\* shared backing arrays: the line it stored in m.content, and, when its save
\* truncated the history (index < len-1) and appended, the element index+1 of
\* the caller's states slice.  Length and index of the caller are untouched.
replaceCharacterDropped(m, replacement, count) ==
    LET r == replaceCharacter(m, replacement, count)
        h == m.undoHistory
        saved == r.undoHistory # h
        overwritten == IF saved /\ h.index < Len(h.states) - 1
                       THEN SetAt(h.states, h.index + 1,
                                  [content |-> r.content, cursor |-> r.cursor])
                       ELSE h.states
    IN [m EXCEPT !.content = r.content, !.undoHistory.states = overwritten]

executeOperation(m, startPos0, endPos0) ==
    LET swap == startPos0.Row > endPos0.Row
                \/ (startPos0.Row = endPos0.Row /\ startPos0.Col > endPos0.Col)
        startPos == IF swap THEN endPos0 ELSE startPos0
        endPos1 == IF swap THEN startPos0 ELSE endPos0
        op == m.commandState.operator
        line == At(m.content, endPos1.Row)
        include == /\ op \in {"d", "c"}
                   /\ endPos1.Row < Len(m.content)
                   /\ endPos1.Col < Len(line)
                   /\ ~isWordBoundary(At(line, endPos1.Col), FALSE)
                   /\ (endPos1.Col + 1 >= Len(line)
                       \/ isWordBoundary(At(line, endPos1.Col + 1), FALSE))
        endPos == IF include THEN Pos(endPos1.Row, endPos1.Col + 1) ELSE endPos1
    IN CASE op = "d" -> deleteRange(m, startPos, endPos)
         [] op = "y" -> yankRange(m, startPos, endPos)
         [] op = "c" -> changeRange(m, startPos, endPos)
         [] OTHER -> m

executeLineOperation(m, count) ==
    LET op == m.commandState.operator
        done == CASE op = "d" -> deleteLines(m, count)
                  [] op = "y" -> yankLines(m, count)
                  [] op = "c" -> changeLines(m, count)
                  [] OTHER -> m
        cleared == [done EXCEPT !.commandState = EmptyCommandState]
    IN [cleared EXCEPT !.cursor = validateCursor(cleared, cleared.cursor)]

MotionKeys ==
    {"h", "left", "l", "right", "j", "down", "k", "up", "w", "W", "b", "B", "e", "E",
     "0", "^", "_", "$", "G"}

\* the motion target chosen by the switch of handleMotionCommand
motionTarget(m, key, motionCount) ==
    CASE key \in {"h", "left"} -> moveLeft(m, motionCount)
      [] key \in {"l", "right"} -> moveRight(m, motionCount)
      [] key \in {"j", "down"} -> moveDown(m, motionCount)
      [] key \in {"k", "up"} -> moveUp(m, motionCount)
      [] key = "w" -> moveWordForward(m, motionCount)
      [] key = "W" -> moveWORDForward(m, motionCount)
      [] key = "b" -> moveWordBackward(m, motionCount)
      [] key = "B" -> moveWORDBackward(m, motionCount)
      [] key = "e" -> moveWordEnd(m, motionCount)
      [] key = "E" -> moveWORDEnd(m, motionCount)
      [] key = "0" -> Pos(m.cursor.Row, 0)
      [] key \in {"^", "_"} -> moveToFirstNonWhitespace(m)
      [] key = "$" -> moveToEndOfLine(m)
      [] key = "G" -> IF motionCount = 1 THEN moveToLastLine(m)
                      ELSE moveToLine(m, motionCount - 1)

\* handleMotionCommand whose default case leaves the command pending
handleMotionCommandNoCancel(m, key) ==
    LET motionCount == IF m.commandState.motionCount = 0 THEN 1
                       ELSE m.commandState.motionCount
        totalCount == m.commandState.count * motionCount
    IN IF key = m.commandState.operator THEN executeLineOperation(m, totalCount)
       ELSE IF key \in MotionKeys
       THEN LET done == executeOperation(m, m.cursor, motionTarget(m, key, motionCount))
                cleared == [done EXCEPT !.commandState = EmptyCommandState]
            IN [cleared EXCEPT !.cursor = validateCursor(cleared, cleared.cursor)]
       ELSE m

handleMotionCommand(m, key) ==
    LET motionCount == IF m.commandState.motionCount = 0 THEN 1
                       ELSE m.commandState.motionCount
        totalCount == m.commandState.count * motionCount
    IN IF key = m.commandState.operator THEN executeLineOperation(m, totalCount)
       ELSE IF key \in MotionKeys
       THEN LET done == executeOperation(m, m.cursor, motionTarget(m, key, motionCount))
                cleared == [done EXCEPT !.commandState = EmptyCommandState]
            IN [cleared EXCEPT !.cursor = validateCursor(cleared, cleared.cursor)]
       ELSE [m EXCEPT !.commandState = EmptyCommandState]

\* m.adjustScroll() drops its result: only the cursor moves
handleGCommand(m) == [m EXCEPT !.cursor = Pos(0, 0)]

handleFindCommand(m, cmd) == m

repeatFind(m, dir) == m.cursor

\* operator entry that records operator and count without the awaiting flag
enterOperatorNotAwaiting(m, key, count) ==
    [m EXCEPT !.commandState = [operator |-> key, count |-> count,
                                motionCount |-> 0, awaitingMotion |-> FALSE]]

\* the operator-entry cases d, y, c
enterOperator(m, key, count) ==
    [m EXCEPT !.commandState = [operator |-> key, count |-> count,
                                motionCount |-> 0, awaitingMotion |-> TRUE]]

\* the standalone-command switch of handleNormalMode, for the keys that fall
\* through to the count reset and cursor validation at its end
normalCommand(m, key, count) ==
    CASE key \in {"h", "left"} -> adjustScroll([m EXCEPT !.cursor = moveLeft(m, count)])
      [] key \in {"j", "down"} -> adjustScroll([m EXCEPT !.cursor = moveDown(m, count)])
      [] key \in {"k", "up"} -> adjustScroll([m EXCEPT !.cursor = moveUp(m, count)])
      [] key \in {"l", "right"} -> adjustScroll([m EXCEPT !.cursor = moveRight(m, count)])
      [] key = "w" -> adjustScroll([m EXCEPT !.cursor = moveWordForward(m, count)])
      [] key = "W" -> adjustScroll([m EXCEPT !.cursor = moveWORDForward(m, count)])
      [] key = "b" -> adjustScroll([m EXCEPT !.cursor = moveWordBackward(m, count)])
      [] key = "B" -> adjustScroll([m EXCEPT !.cursor = moveWORDBackward(m, count)])
      [] key = "e" -> adjustScroll([m EXCEPT !.cursor = moveWordEnd(m, count)])
      [] key = "E" -> adjustScroll([m EXCEPT !.cursor = moveWORDEnd(m, count)])
      [] key = "0" -> adjustScroll([m EXCEPT !.cursor.Col = 0])
      [] key \in {"^", "_"} ->
            adjustScroll([m EXCEPT !.cursor = moveToFirstNonWhitespace(m)])
      [] key = "$" -> adjustScroll([m EXCEPT !.cursor = moveToEndOfLine(m)])
      [] key = "G" ->
            adjustScroll([m EXCEPT !.cursor = IF count = 1 THEN moveToLastLine(m)
                                              ELSE moveToLine(m, count - 1)])
      [] key = ";" -> [m EXCEPT !.cursor = repeatFind(m, 1)]
      [] key = "," -> [m EXCEPT !.cursor = repeatFind(m, -1)]
      [] key = "i" -> [startInsertSession(m) EXCEPT !.mode = Insert]
      [] key = "I" ->
            LET s == startInsertSession(m)
            IN [adjustScroll([s EXCEPT !.cursor = moveToFirstNonWhitespace(s)])
                  EXCEPT !.mode = Insert]
      [] key = "a" ->
            LET s == startInsertSession(m)
            IN [adjustScroll([s EXCEPT !.cursor = moveRight(s, 1)]) EXCEPT !.mode = Insert]
      [] key = "A" ->
            LET s == startInsertSession(m)
            IN [adjustScroll([s EXCEPT !.cursor = moveToEndOfLine(s)]) EXCEPT !.mode = Insert]
      [] key = "o" -> [insertNewLineBelow(startInsertSession(m)) EXCEPT !.mode = Insert]
      [] key = "O" -> [insertNewLineAbove(startInsertSession(m)) EXCEPT !.mode = Insert]
      [] key = "v" -> [m EXCEPT !.mode = Visual,
                                !.selection = [Start |-> m.cursor, End |-> m.cursor]]
      [] key = "x" -> deleteChar(m, count)
      [] key = "D" -> deleteToEndOfLine(m)
      [] key = "C" -> changeToEndOfLine(m)
      [] key = "Y" -> yankLine(m)
      [] key = "p" -> pasteAfter(m)
      [] key = "P" -> pasteBefore(m)
      [] key = "u" -> undo(m)
      [] key = "ctrl+r" -> redo(m)
      [] OTHER -> m

handleNormalMode(m, key) ==
    IF m.awaitingReplaceChar
    THEN IF IsSingleByte(key)
         THEN [replaceCharacterDropped(m, Runes(key), m.replaceCount)
                 EXCEPT !.awaitingReplaceChar = FALSE, !.replaceCount = 0]
         ELSE m
    ELSE IF IsSingleByte(key) /\ key \in (Digits \ {"0"}) /\ m.inputCount = 0
            /\ ~m.commandState.awaitingMotion
    THEN [m EXCEPT !.inputCount = DigitValue(key)]
    ELSE IF IsSingleByte(key) /\ key \in Digits
            /\ (m.inputCount > 0 \/ m.commandState.awaitingMotion)
    THEN IF m.commandState.awaitingMotion
         THEN [m EXCEPT !.commandState.motionCount =
                           m.commandState.motionCount * 10 + DigitValue(key)]
         ELSE [m EXCEPT !.inputCount = m.inputCount * 10 + DigitValue(key)]
    ELSE IF m.commandState.awaitingMotion THEN handleMotionCommand(m, key)
    ELSE LET count == IF m.inputCount = 0 THEN 1 ELSE m.inputCount
         IN CASE key = "g" -> handleGCommand(m)
              [] key \in {"f", "F", "t", "T"} -> handleFindCommand(m, key)
              [] key = "r" -> [m EXCEPT !.awaitingReplaceChar = TRUE, !.replaceCount = count]
              [] key \in {"d", "y", "c"} -> enterOperator(m, key, count)
              [] OTHER ->
                   LET done == [normalCommand(m, key, count) EXCEPT !.inputCount = 0]
                   IN [done EXCEPT !.cursor = validateCursor(done, done.cursor)]

\* the completion switch without its Esc case: Esc falls through to the normal
\* insert handling while the popup is active
handleCompletionKeyEscFallsThrough(m, key) ==
    CASE key \in {"ctrl+n", "down", "ctrl+p", "up"} -> [handled |-> TRUE, m |-> m]
      [] key \in {"ctrl+y", "enter"} ->
           IF m.completionState.Items > 0
           THEN [handled |-> TRUE,
                 m |-> [m EXCEPT !.content = << <<>> >>, !.cursor = Pos(0, 0),
                                 !.completionState = EmptyCompletionState]]
           ELSE [handled |-> TRUE, m |-> m]
      [] key = "backspace" ->
           [handled |-> TRUE, m |-> checkAndTriggerCompletion(backspace(m))]
      [] key \in {"esc", "left", "right"} -> [handled |-> FALSE, m |-> m]
      [] OTHER ->
           IF Len(Runes(key)) > 0
           THEN [handled |-> TRUE, m |-> updateCompletion(insertText(m, Runes(key)))]
           ELSE [handled |-> FALSE, m |-> m]

\* the switch of handleInsertMode that runs while the completion popup is
\* active; [handled, m]: handled = FALSE for the keys that fall through to the
\* normal insert handling.  Selected only picks which item is reported to the
\* host; every item of the slash engine starts with "/", so accepting one
\* clears the buffer.
handleCompletionKey(m, key) ==
    CASE key = "esc" ->
           [handled |-> TRUE, m |-> [m EXCEPT !.completionState = EmptyCompletionState]]
      [] key \in {"ctrl+n", "down", "ctrl+p", "up"} -> [handled |-> TRUE, m |-> m]
      [] key \in {"ctrl+y", "enter"} ->
           IF m.completionState.Items > 0
           THEN [handled |-> TRUE,
                 m |-> [m EXCEPT !.content = << <<>> >>, !.cursor = Pos(0, 0),
                                 !.completionState = EmptyCompletionState]]
           ELSE [handled |-> TRUE, m |-> m]
      [] key = "backspace" ->
           [handled |-> TRUE, m |-> checkAndTriggerCompletion(backspace(m))]
      [] key \in {"left", "right"} -> [handled |-> FALSE, m |-> m]
      [] OTHER ->
           IF Len(Runes(key)) > 0
           THEN [handled |-> TRUE, m |-> updateCompletion(insertText(m, Runes(key)))]
           ELSE [handled |-> FALSE, m |-> m]

\* the second switch of handleInsertMode, before the final validateCursor
insertCommand(m, key) ==
    CASE key = "esc" ->
           LET ended == [endInsertSession([m EXCEPT !.completionState = EmptyCompletionState])
                           EXCEPT !.mode = Normal]
           IN adjustScroll([ended EXCEPT !.cursor = moveLeft(ended, 1)])
      [] key = "enter" -> insertNewLine(m)
      [] key = "backspace" -> checkAndTriggerCompletion(backspace(m))
      [] key = "tab" -> insertText(m, <<"\t">>)
      [] key = "left" ->
           checkAndTriggerCompletion(adjustScroll([m EXCEPT !.cursor = moveLeft(m, 1)]))
      [] key = "right" ->
           checkAndTriggerCompletion(adjustScroll([m EXCEPT !.cursor = moveRight(m, 1)]))
      [] key = "up" ->
           [adjustScroll([m EXCEPT !.cursor = moveUp(m, 1)])
              EXCEPT !.completionState = EmptyCompletionState]
      [] key = "down" ->
           [adjustScroll([m EXCEPT !.cursor = moveDown(m, 1)])
              EXCEPT !.completionState = EmptyCompletionState]
      [] OTHER ->
           IF Len(Runes(key)) > 0
           THEN IF shouldTriggerCompletion(m, Runes(key)[1])
                THEN triggerCompletion(insertText(m, Runes(key)), Runes(key)[1])
                ELSE insertText(m, Runes(key))
           ELSE m

handleInsertMode(m, key) ==
    LET c == IF m.completionState.Active THEN handleCompletionKey(m, key)
             ELSE [handled |-> FALSE, m |-> m]
    IN IF c.handled THEN c.m
       ELSE LET done == insertCommand(m, key)
            IN [done EXCEPT !.cursor = validateCursor(done, done.cursor)]

\* the switch of handleVisualMode, before the final validateCursor
visualCommand(m, key) ==
    CASE key = "esc" -> [m EXCEPT !.mode = Normal, !.selection = NoSelection]
      [] key \in {"h", "left"} ->
           LET moved == adjustScroll([m EXCEPT !.cursor = moveLeft(m, 1)])
           IN [moved EXCEPT !.selection.End = moved.cursor]
      [] key \in {"j", "down"} ->
           LET moved == adjustScroll([m EXCEPT !.cursor = moveDown(m, 1)])
           IN [moved EXCEPT !.selection.End = moved.cursor]
      [] key \in {"k", "up"} ->
           LET moved == adjustScroll([m EXCEPT !.cursor = moveUp(m, 1)])
           IN [moved EXCEPT !.selection.End = moved.cursor]
      [] key \in {"l", "right"} ->
           LET moved == adjustScroll([m EXCEPT !.cursor = moveRight(m, 1)])
           IN [moved EXCEPT !.selection.End = moved.cursor]
      [] key \in {"d", "x"} ->
           [deleteSelection(m) EXCEPT !.mode = Normal, !.selection = NoSelection]
      [] key = "y" ->
           [yankSelection(m) EXCEPT !.mode = Normal, !.selection = NoSelection]
      [] OTHER -> m

\* handleVisualMode that leaves the selection as it was before the key
handleVisualModeStaleSelection(m, key) ==
    LET done == visualCommand(m, key)
    IN [done EXCEPT !.cursor = validateCursor(done, done.cursor), !.selection = m.selection]

handleVisualMode(m, key) ==
    LET done == visualCommand(m, key)
    IN [done EXCEPT !.cursor = validateCursor(done, done.cursor)]

handleKeyMsg(m, key) ==
    CASE m.mode = Normal -> handleNormalMode(m, key)
      [] m.mode = Insert -> handleInsertMode(m, key)
      [] m.mode = Visual -> handleVisualMode(m, key)

\* the undo capacity New() configures
DefaultMaxSize == 100

\* the Model literal of New() with undo capacity maxSize, followed by the
\* initial saveUndoState
NewWith(maxSize) ==
    saveUndoState(
      [mode |-> Insert,
       content |-> << <<>> >>,
       cursor |-> Pos(0, 0),
       selection |-> NoSelection,
       clipboard |-> <<>>,
       height |-> 1,
       scrollOffset |-> 0,
       commandState |-> EmptyCommandState,
       inputCount |-> 0,
       awaitingReplaceChar |-> FALSE,
       replaceCount |-> 0,
       inInsertSession |-> FALSE,
       undoHistory |-> [states |-> <<>>, index |-> -1, maxSize |-> maxSize],
       completionState |-> EmptyCompletionState,
       completionEngine |-> FALSE,
       completionStartPos |-> Pos(0, 0)])

New == NewWith(DefaultMaxSize)

(* ------------------------------ the engine ----------------------------- *)
\* m: the engine instance held by the host (the Go struct Model);
\* nKeys: the number of messages delivered so far (key events, and under
\* the host the changes of the terminal size);
\* viewportHeight: viewport.height of the host, the rows of the terminal as
\* the last WindowSizeMsg gave them, 0 before the first
VARIABLES m, nKeys, viewportHeight

vars == <<m, nKeys, viewportHeight>>

\* bytes typed as text and as replacement characters: a letter, a blank and a
\* punctuation byte that is also the slash-command trigger
TextKeys == {"a", " ", "/"}

\* The key events explored in each mode.  In Insert mode every printable key
\* is text, so the typed bytes stand for their classes.
InsertKeys == TextKeys \cup {"esc", "enter", "backspace", "left", "right", "up", "down"}

NormalKeys ==
    {"h", "j", "k", "l", "w", "W", "b", "B", "e", "E", "0", "^", "$", "g", "G", "f", ";",
     "1", "2", "i", "I", "a", "A", "o", "O", "v", "x", "r", "d", "D", "C", "Y", "y", "c",
     "p", "P", "u", "ctrl+r", "esc", " ", "/"}

VisualKeys == {"esc", "h", "j", "k", "l", "d", "x", "y", "v"}

\* the explored part of the state space
WithinBounds(r, maxLen) ==
    /\ Len(r.content) <= MaxLines
    /\ \A i \in 1..Len(r.content) : Len(r.content[i]) <= maxLen
    /\ Len(r.undoHistory.states) <= MaxStates
    /\ r.inputCount <= MaxCount
    /\ r.commandState.count <= MaxCount
    /\ r.commandState.motionCount <= MaxCount
    /\ r.replaceCount <= MaxCount

\* Update(tea.KeyMsg): one key event, drawn from keys, handled in mode
KeyEvent(mode, keys, maxLen) ==
    /\ m.mode = mode
    /\ \E key \in keys :
         /\ WithinBounds(handleKeyMsg(m, key), maxLen)
         /\ m' = handleKeyMsg(m, key)

Init == m = New /\ nKeys = 0 /\ viewportHeight = 0

NormalKey == nKeys < MaxKeys /\ KeyEvent(Normal, NormalKeys, MaxLineLen) /\ nKeys' = nKeys + 1 /\ UNCHANGED viewportHeight

InsertKey == nKeys < MaxKeys /\ KeyEvent(Insert, InsertKeys, MaxLineLen) /\ nKeys' = nKeys + 1 /\ UNCHANGED viewportHeight

VisualKey == nKeys < MaxKeys /\ KeyEvent(Visual, VisualKeys, MaxLineLen) /\ nKeys' = nKeys + 1 /\ UNCHANGED viewportHeight

Next == NormalKey \/ InsertKey \/ VisualKey

\* the engine from construction, every key family, runs of at most MaxKeys keys
Spec == Init /\ [][Next]_vars

(* ---------------- the engine under editing and undo keys --------------- *)
\* the keys that edit one line and walk the undo history
EditInsertKeys == {"a", " ", "esc"}

EditNormalKeys == {"i", "a", "x", "r", " ", "u", "ctrl+r"}

EditNormalKey == KeyEvent(Normal, EditNormalKeys, MaxEditLen) /\ UNCHANGED <<nKeys, viewportHeight>>

EditInsertKey == KeyEvent(Insert, EditInsertKeys, MaxEditLen) /\ UNCHANGED <<nKeys, viewportHeight>>

NextEdit == EditNormalKey \/ EditInsertKey

\* the engine from construction, runs of any length over the editing keys
SpecEdit == Init /\ [][NextEdit]_vars

(* ------------------------------- claims -------------------------------- *)
\* the keys explored in the mode the engine is in
KeysOf(mode) ==
    CASE mode = Normal -> NormalKeys
      [] mode = Insert -> InsertKeys
      [] mode = Visual -> VisualKeys

\* C1: after every key event the cursor row addresses a line of the buffer
\* and the cursor column lies within that line (0 <= col <= length); in
\* Normal mode on a non-empty line the column is at most length - 1.
CursorWithinBounds ==
    /\ 0 <= m.cursor.Row
    /\ m.cursor.Row < Len(m.content)
    /\ 0 <= m.cursor.Col
    /\ m.cursor.Col <= Len(At(m.content, m.cursor.Row))
    /\ (m.mode = Normal /\ Len(At(m.content, m.cursor.Row)) > 0
          => m.cursor.Col <= Len(At(m.content, m.cursor.Row)) - 1)

\* C1 witness: after some key events the engine is in Normal mode with the
\* cursor resting on the last character of a line of two or more characters
CursorOnLastCharacter ==
    /\ nKeys > 0
    /\ m.mode = Normal
    /\ m.cursor.Row < Len(m.content)
    /\ Len(At(m.content, m.cursor.Row)) >= 2
    /\ m.cursor.Col = Len(At(m.content, m.cursor.Row)) - 1

\* the count {n}dd runs with when the second d arrives
pendingLineCount ==
    m.commandState.count
      * (IF m.commandState.motionCount = 0 THEN 1 ELSE m.commandState.motionCount)

\* C2: after every key event (backspace joins, range deletes, line deletes
\* with a count larger than the number of lines) the buffer has at least one
\* line, and a line delete whose count covers every line leaves exactly one
\* empty line.
BufferNeverEmpty ==
    /\ Len(m.content) >= 1
    /\ ((m.mode = Normal /\ ~m.awaitingReplaceChar /\ m.commandState.awaitingMotion
            /\ m.commandState.operator = "d" /\ pendingLineCount >= Len(m.content))
          => handleKeyMsg(m, "d").content = << <<>> >>)

\* C2 witness: a delete that spanned a line separator has left the buffer
\* with exactly one empty line
AllLinesDeleted ==
    /\ nKeys > 0
    /\ m.mode = Normal
    /\ m.content = << <<>> >>
    /\ ContainsNL(m.clipboard)

\* the engine after the key events of keys, in order
RECURSIVE pressKeys(_, _)
pressKeys(model, keys) ==
    IF keys = <<>> THEN model
    ELSE pressKeys(handleKeyMsg(model, Head(keys)), Tail(keys))

\* n presses of one key
times(key, n) == [i \in 1..n |-> key]

\* Normal mode with no command, count or replacement pending
idle(model) ==
    /\ model.mode = Normal
    /\ ~model.awaitingReplaceChar
    /\ model.commandState = EmptyCommandState
    /\ model.inputCount = 0

\* the snapshot the undo index designates
currentSnapshot(model) == At(model.undoHistory.states, model.undoHistory.index)

\* the texts typed in an insert session: one or two characters
TypedTexts == {<<a>> : a \in TextKeys} \cup {<<a, b>> : a \in TextKeys, b \in TextKeys}

\* C3: whenever the engine is in Normal mode with no insert session in
\* progress and the undo index is >= 0, the lines of states[index] equal the
\* live buffer lines.
SnapshotEqualsBuffer ==
    (m.mode = Normal /\ ~m.inInsertSession /\ m.undoHistory.index >= 0)
      => currentSnapshot(m).content = m.content

\* C4: right after a key event that completed an edit (the engine is in
\* Normal mode and the buffer or the history changed), n undos followed by n
\* redos leave exactly the buffer lines and the cursor of that moment, for
\* every n up to the history length.
UndoRedoRoundTrip ==
    \A key \in KeysOf(m.mode) \ {"u", "ctrl+r"} :
      LET edited == handleKeyMsg(m, key)
      IN (/\ idle(edited)
          /\ (edited.content # m.content \/ edited.undoHistory # m.undoHistory))
           => \A n \in 1..Len(edited.undoHistory.states) :
                LET back == pressKeys(edited, times("u", n) \o times("ctrl+r", n))
                IN back.content = edited.content /\ back.cursor = edited.cursor

\* C5: an insert session entered from Normal mode by i/I/a/A/o/O, with one or
\* more characters typed and ended by Esc, adds exactly one checkpoint; the
\* entry key and the typed characters add none; one undo afterwards restores
\* the buffer from before the session.
InsertSessionIsOneCheckpoint ==
    idle(m) =>
      \A entry \in {"i", "I", "a", "A", "o", "O"}, text \in TypedTexts :
        LET typed == pressKeys(m, <<entry>> \o text)
            closed == handleKeyMsg(typed, "esc")
        IN closed.mode = Normal =>
             /\ typed.undoHistory = m.undoHistory
             /\ closed.undoHistory.index = m.undoHistory.index + 1
             /\ Len(closed.undoHistory.states) = m.undoHistory.index + 2
             /\ handleKeyMsg(closed, "u").content = m.content

\* C6: every Esc that takes the engine from Insert to Normal mode ends the
\* insert session and leaves a snapshot of the buffer at the undo index,
\* whichever way Insert mode was entered, the Insert mode of New() included.
EscForcesCheckpoint ==
    m.mode = Insert =>
      LET after == handleKeyMsg(m, "esc")
      IN after.mode = Normal =>
           /\ ~after.inInsertSession
           /\ currentSnapshot(after).content = after.content

\* the change commands: c{motion}, cc and C
ChangeCommands ==
    {<<"c", "w">>, <<"c", "l">>, <<"c", "$">>, <<"c", "j">>, <<"c", "c">>, <<"C">>}

\* C7: a change command followed by typed text and Esc produces exactly one
\* new checkpoint: the delete part saves none, and one undo restores the
\* buffer from before the change command.  Stated for the states in which
\* the current snapshot already equals the buffer.
ChangeIsOneCheckpoint ==
    (idle(m) /\ currentSnapshot(m).content = m.content) =>
      \A cmd \in ChangeCommands, text \in TypedTexts :
        LET changed == pressKeys(m, cmd)
            closed == pressKeys(changed, text \o <<"esc">>)
        IN (changed.mode = Insert /\ closed.mode = Normal) =>
             /\ changed.undoHistory = m.undoHistory
             /\ closed.undoHistory.index = m.undoHistory.index + 1
             /\ handleKeyMsg(closed, "u").content = m.content

(* ---------------- a history of small capacity: eviction ----------------- *)
\* the undo capacity of the engine explored for eviction
UndoCap == 3

CapInsertKeys == {"a", " ", "esc"}
CapNormalKeys == {"i", "x", "u", "ctrl+r"}

InitCap == m = NewWith(UndoCap) /\ nKeys = 0 /\ viewportHeight = 0

CapNormalKey == KeyEvent(Normal, CapNormalKeys, MaxLineLen) /\ UNCHANGED <<nKeys, viewportHeight>>

CapInsertKey == KeyEvent(Insert, CapInsertKeys, MaxLineLen) /\ UNCHANGED <<nKeys, viewportHeight>>

NextCap == CapNormalKey \/ CapInsertKey

SpecCap == InitCap /\ [][NextCap]_vars

\* C8: after any sequence of saves, undos and redos -1 <= index < len(states)
\* and len(states) <= capacity; a save into a full history evicts the oldest
\* snapshot, keeps the others in order and leaves the index on the snapshot
\* just saved.
HistoryWithinCapacity ==
    LET h == m.undoHistory
        saved == saveUndoState(m).undoHistory
    IN /\ -1 <= h.index
       /\ h.index < Len(h.states)
       /\ Len(h.states) <= h.maxSize
       /\ ((currentSnapshot(m).content # m.content /\ h.index + 1 = h.maxSize)
             => /\ saved.states = Tail(h.states)
                                    \o << [content |-> m.content, cursor |-> m.cursor] >>
                /\ saved.index = Len(saved.states) - 1
                /\ Len(saved.states) = h.maxSize)

\* C8 witness: the history is full, the index is on its newest snapshot and
\* the snapshot of the empty buffer taken by New() has been evicted
OldestSnapshotEvicted ==
    /\ Len(m.undoHistory.states) = m.undoHistory.maxSize
    /\ m.undoHistory.index = m.undoHistory.maxSize - 1
    /\ \A i \in 0..(Len(m.undoHistory.states) - 1) :
         At(m.undoHistory.states, i).content # << <<>> >>

\* C9: a save whose lines equal the lines of the snapshot at the index
\* changes neither history nor index, and no two adjacent snapshots of the
\* history have identical lines.
NoAdjacentDuplicates ==
    /\ (currentSnapshot(m).content = m.content
          => saveUndoState(m).undoHistory = m.undoHistory)
    /\ \A i \in 0..(Len(m.undoHistory.states) - 2) :
         At(m.undoHistory.states, i).content # At(m.undoHistory.states, i + 1).content

\* C10: a new edit invalidates the redo history.  When index < len(states) - 1,
\* a save of the live buffer leaves states[0..index] followed by the new
\* snapshot, index = len(states) - 1, and a redo right after it changes
\* nothing; and every Normal-mode key other than undo and redo that changes
\* the buffer and ends in Normal mode leaves the history so: the snapshots up
\* to the old index, one new snapshot of the buffer, the index on it, and a
\* redo right after it changes nothing.
SaveTruncatesRedoHistory ==
    LET h == m.undoHistory
        kept == Slice(h.states, 0, h.index + 1)
        saved == saveUndoState(m)
    IN h.index < Len(h.states) - 1 =>
         /\ currentSnapshot(m).content # m.content
              => /\ saved.undoHistory.states
                      = Append(kept, [content |-> m.content, cursor |-> m.cursor])
                 /\ saved.undoHistory.index = Len(saved.undoHistory.states) - 1
                 /\ redo(saved) = saved
         /\ m.mode = Normal
              => \A key \in KeysOf(m.mode) \ {"u", "ctrl+r"} :
                   \A after \in {handleKeyMsg(m, key)} :
                     (after.content # m.content /\ after.mode = Normal)
                       => /\ Slice(after.undoHistory.states, 0, h.index + 1) = kept
                          /\ Len(after.undoHistory.states) = h.index + 2
                          /\ currentSnapshot(after).content = after.content
                          /\ after.undoHistory.index = Len(after.undoHistory.states) - 1
                          /\ redo(after) = after

\* buffer, cursor, history and index of a and b are the same
sameText(a, b) ==
    /\ a.content = b.content
    /\ a.cursor = b.cursor
    /\ a.undoHistory = b.undoHistory

\* r is model with the index moved to idx and the lines and cursor of that
\* snapshot restored
restoredTo(r, model, idx) ==
    /\ r.undoHistory = [model.undoHistory EXCEPT !.index = idx]
    /\ r.content = At(model.undoHistory.states, idx).content
    /\ r.cursor = At(model.undoHistory.states, idx).cursor

\* C11: undo with index <= 0 and redo with index = len(states) - 1 leave
\* buffer, cursor, history and index unchanged; otherwise undo moves the index
\* down by one and redo up by one and the buffer lines and cursor become those
\* of that snapshot.  The keys u and ctrl+r do the same, followed by the
\* cursor validation that ends every Normal-mode command.
UndoRedoStep ==
    LET h == m.undoHistory
        undone == undo(m)
        redone == redo(m)
        noCommandPending == /\ m.mode = Normal
                            /\ ~m.awaitingReplaceChar
                            /\ ~m.commandState.awaitingMotion
                            /\ m.inputCount = 0
    IN /\ IF h.index <= 0 THEN undone = m ELSE restoredTo(undone, m, h.index - 1)
       /\ IF h.index >= Len(h.states) - 1 THEN redone = m
          ELSE restoredTo(redone, m, h.index + 1)
       /\ noCommandPending =>
            /\ sameText(handleKeyMsg(m, "u"),
                        [undone EXCEPT !.cursor = validateCursor(undone, undone.cursor)])
            /\ sameText(handleKeyMsg(m, "ctrl+r"),
                        [redone EXCEPT !.cursor = validateCursor(redone, redone.cursor)])
            /\ (h.index <= 0 => sameText(handleKeyMsg(m, "u"), m))
            /\ (h.index >= Len(h.states) - 1 => sameText(handleKeyMsg(m, "ctrl+r"), m))

\* C11 witness: an undo has acted: the index is below the newest snapshot and
\* buffer and cursor are those of the snapshot at the index, whose cursor
\* differs from the cursor of the snapshot above it
UndoHasRestored ==
    /\ idle(m)
    /\ m.undoHistory.index >= 0
    /\ m.undoHistory.index < Len(m.undoHistory.states) - 1
    /\ m.content = currentSnapshot(m).content
    /\ m.cursor = currentSnapshot(m).cursor
    /\ m.cursor # At(m.undoHistory.states, m.undoHistory.index + 1).cursor

\* the keys of a count: none for 1, the digit otherwise
countKeys(n) == IF n = 1 THEN <<>> ELSE <<CASE n = 2 -> "2" [] n = 3 -> "3" [] n = 4 -> "4">>

\* the cursor after k single word-forward steps
RECURSIVE wordForwardSteps(_, _)
wordForwardSteps(model, k) ==
    IF k = 0 THEN model.cursor
    ELSE wordForwardSteps([model EXCEPT !.cursor = moveWordForward(model, 1)], k - 1)

\* C12: for all n, k >= 1 the keys {n}d{k}w leave the buffer and the clipboard
\* that the delete leaves when it runs from the cursor to the position reached
\* by n*k single word-forward steps.
CountsMultiplyForWordDelete ==
    idle(m) =>
      \A n \in 1..MaxCount, k \in 1..MaxCount :
        LET typed == pressKeys(m, countKeys(n) \o <<"d">> \o countKeys(k) \o <<"w">>)
            target == wordForwardSteps(m, n * k)
            expected == executeOperation(enterOperator(m, "d", 1), m.cursor, target)
        IN /\ typed.content = expected.content
           /\ typed.clipboard = expected.clipboard

\* the offset of a position in the buffer text joined with line separators
RECURSIVE offsetOf(_, _)
offsetOf(content, pos) ==
    IF pos.Row = 0 THEN pos.Col
    ELSE Len(Head(content)) + 1 + offsetOf(Tail(content), Pos(pos.Row - 1, pos.Col))

\* a precedes b in row-major order
before(a, b) == a.Row < b.Row \/ (a.Row = b.Row /\ a.Col < b.Col)

\* [lines, removed]: the buffer without the text from position lo up to, not
\* including, position hi, and that text
withoutRange(content, lo, hi) ==
    LET text == Join(content)
        from == offsetOf(content, lo)
        to == offsetOf(content, hi)
    IN [lines |-> Split(SubSeq(text, 1, from) \o SubSeq(text, to + 1, Len(text))),
        removed |-> SubSeq(text, from + 1, to)]

\* the motions of the claim that are not word-end motions; 0 is left to C20
ExclusiveMotions == {"h", "l", "j", "k", "w", "W", "b", "B", "^", "_", "$", "G"}

\* C13: for operator d or c and a motion other than word-end the removed text
\* is exactly the half-open range from the earlier to the later of cursor and
\* motion target; for e and E the character at the end position is removed as
\* well.
OperatorRangeIsHalfOpen ==
    idle(m) =>
      \A op \in {"d", "c"}, key \in ExclusiveMotions \cup {"e", "E"} :
        LET typed == pressKeys(m, <<op, key>>)
            target == motionTarget(m, key, 1)
            lo == IF before(target, m.cursor) THEN target ELSE m.cursor
            hi == IF before(target, m.cursor) THEN m.cursor ELSE target
            end == IF key \in {"e", "E"} /\ hi.Col < Len(At(m.content, hi.Row))
                   THEN Pos(hi.Row, hi.Col + 1) ELSE hi
            expected == withoutRange(m.content, lo, end)
        IN /\ typed.content = expected.lines
           /\ typed.clipboard = expected.removed

\* the keys {n}{op}{k}{motion}
operatorKeys(n, op, k, motion) == countKeys(n) \o <<op>> \o countKeys(k) \o <<motion>>

\* C14: for every buffer, cursor, count and motion the clipboard after
\* d{motion} equals the clipboard after y{motion} issued from the same state
\* (dd and yy included).
DeleteYankSameClipboard ==
    idle(m) =>
      \A n \in 1..MaxCount, k \in 1..MaxCount :
        /\ \A motion \in MotionKeys :
             pressKeys(m, operatorKeys(n, "d", k, motion)).clipboard
               = pressKeys(m, operatorKeys(n, "y", k, motion)).clipboard
        /\ pressKeys(m, operatorKeys(n, "d", k, "d")).clipboard
             = pressKeys(m, operatorKeys(n, "y", k, "y")).clipboard

\* C15: every yank form (y{motion} and yy with any counts, Y, y in Visual
\* mode) leaves buffer lines, cursor position, undo history and undo index
\* as they were.
YankChangesOnlyClipboard ==
    /\ ((m.mode = Normal /\ ~m.awaitingReplaceChar /\ m.commandState.awaitingMotion
            /\ m.commandState.operator = "y")
          => \A key \in (MotionKeys \ {"0"}) \cup {"y"} :
               sameText(handleKeyMsg(m, key), m))
    /\ ((m.mode = Normal /\ ~m.awaitingReplaceChar /\ ~m.commandState.awaitingMotion)
          => sameText(handleKeyMsg(m, "Y"), m))
    /\ (m.mode = Visual => sameText(handleKeyMsg(m, "y"), m))

\* C16: {n}dd with effective count n = operatorCount * motionCount at cursor
\* row r removes exactly the lines r..min(r+n-1, lastRow): the lines above r
\* and the lines below the block remain, the clipboard holds the removed
\* lines joined by the line separator, and the buffer becomes one empty line
\* only when the block is the whole buffer.
LineDeleteRemovesBlock ==
    (m.mode = Normal /\ ~m.awaitingReplaceChar /\ m.commandState.awaitingMotion
       /\ m.commandState.operator = "d")
      => LET r == m.cursor.Row
             last == Min(r + pendingLineCount - 1, Len(m.content) - 1)
             remaining == Slice(m.content, 0, r) \o Slice(m.content, last + 1, Len(m.content))
             after == handleKeyMsg(m, "d")
         IN /\ after.content = IF remaining = <<>> THEN << <<>> >> ELSE remaining
            /\ after.clipboard = Join(Slice(m.content, r, last + 1))

\* key is taken as a digit of a count by handleNormalMode in state model
isCountKey(model, key) ==
    /\ ~model.awaitingReplaceChar
    /\ \/ (key \in Digits \ {"0"} /\ model.inputCount = 0
             /\ ~model.commandState.awaitingMotion)
       \/ (key \in Digits /\ (model.inputCount > 0 \/ model.commandState.awaitingMotion))

\* C17: after every Normal-mode key that completes or aborts a command, that
\* is every key that is not a count digit and leaves neither an operator nor a
\* replace pending, the typed count, the operator count and the motion count
\* are all zero.
CountsResetAfterCommand ==
    m.mode = Normal =>
      \A key \in NormalKeys :
        LET after == handleKeyMsg(m, key)
        IN (/\ ~isCountKey(m, key)
            /\ ~after.commandState.awaitingMotion
            /\ ~after.awaitingReplaceChar)
             => /\ after.inputCount = 0
                /\ after.commandState.count = 0
                /\ after.commandState.motionCount = 0

\* the keys that are neither a digit, the pending operator nor a motion
cancelKeys(model) ==
    (NormalKeys \cup NamedKeys) \ (Digits \cup MotionKeys \cup {model.commandState.operator})

\* C18: with an operator pending, a key that is neither a digit, the operator
\* itself nor a recognised motion clears the pending operator, the
\* awaiting-motion flag and both counts, and leaves buffer lines, cursor,
\* clipboard, mode and undo history unchanged.
UnknownMotionCancels ==
    (m.mode = Normal /\ ~m.awaitingReplaceChar /\ m.commandState.awaitingMotion)
      => \A key \in cancelKeys(m) :
           LET after == handleKeyMsg(m, key)
           IN /\ after.commandState = EmptyCommandState
              /\ sameText(after, m)
              /\ after.clipboard = m.clipboard
              /\ after.mode = m.mode

\* C18 witness: an operator with operator count and motion count typed is
\* pending on a non-empty buffer, and Esc cancels it
CountedOperatorCancelled ==
    /\ m.mode = Normal
    /\ m.commandState.awaitingMotion
    /\ m.commandState.count >= 2
    /\ m.commandState.motionCount >= 2
    /\ Len(At(m.content, m.cursor.Row)) > 0
    /\ "esc" \in cancelKeys(m)
    /\ handleKeyMsg(m, "esc").commandState = EmptyCommandState

\* line with the count characters from column col on replaced by char
withReplaced(line, col, count, char) ==
    [i \in 1..Len(line) |-> IF i - 1 >= col /\ i - 1 < col + count THEN char ELSE line[i]]

\* C19: while a replace is pending the next key always ends the pending
\* state: a single-character key replaces count characters at the cursor, any
\* other key leaves the buffer unchanged, and in both cases the
\* replace-pending flag is false after that key.
ReplacePendingEndsWithNextKey ==
    (m.mode = Normal /\ m.awaitingReplaceChar) =>
      \A key \in NormalKeys \cup NamedKeys :
        LET after == handleKeyMsg(m, key)
            line == At(m.content, m.cursor.Row)
        IN /\ ~after.awaitingReplaceChar
           /\ after.content =
                IF IsSingleByte(key)
                THEN SetAt(m.content, m.cursor.Row,
                           withReplaced(line, m.cursor.Col, m.replaceCount, key))
                ELSE m.content

\* C20: with an operator pending and no motion-count digit typed, key 0 is
\* the start-of-line motion: d0 deletes the text from column 0 up to the
\* cursor, stores it in the clipboard and clears the pending operator; 0 is
\* appended to a count only after a non-zero digit has started it.
LeadingZeroIsMotion ==
    idle(m) =>
      LET typed == pressKeys(m, <<"d", "0">>)
          expected == withoutRange(m.content, Pos(m.cursor.Row, 0), m.cursor)
      IN /\ typed.commandState = EmptyCommandState
         /\ typed.content = expected.lines
         /\ typed.clipboard = expected.removed
         /\ pressKeys(m, <<"d", "2", "0">>).commandState.motionCount = 20
         /\ pressKeys(m, <<"2", "0">>).inputCount = 20

(* ------------------------------ scrolling ------------------------------ *)
\* C21: after every key event, whenever the buffer has more lines than the
\* viewport, the cursor row lies inside the viewport:
\* scrollOffset <= cursor.Row <= scrollOffset + height - 1.
CursorVisible ==
    (Len(m.content) > m.height)
        => (/\ m.scrollOffset <= m.cursor.Row
            /\ m.cursor.Row <= m.scrollOffset + m.height - 1)

\* C22: after every key event 0 <= scrollOffset <= max(0, lineCount - height),
\* so the offset is 0 whenever the whole buffer fits in the viewport.
ScrollOffsetWithinBounds ==
    /\ 0 <= m.scrollOffset
    /\ m.scrollOffset <= Max(0, Len(m.content) - m.height)

(* -------------------------------- modes -------------------------------- *)
\* C23: the mode is one of Normal, Insert and Visual, and a key event changes
\* it only along these transitions: Normal to Insert on i, I, a, A, o, O or a
\* completed change (C, cc, c{motion}); Insert to Normal on Esc while no
\* completion popup is active; Normal to Visual on v; Visual to Normal on Esc,
\* d, x or y.  Those keys do make the transition (i, I, a, A, o, O, C and v
\* with nothing pending, a motion or c with the change operator pending), and
\* every other key leaves the mode as it is.  Checked for every key event the
\* specification takes from the state.
ModeStateMachine ==
    /\ m.mode \in {Normal, Insert, Visual}
    /\ \A key \in (IF nKeys < MaxKeys THEN KeysOf(m.mode) ELSE {}) :
       \A r \in {handleKeyMsg(m, key)} :
         LET pending == m.commandState.awaitingMotion
             allowed ==
               \/ /\ m.mode = Normal /\ r.mode = Insert
                  /\ \/ (~pending /\ ~m.awaitingReplaceChar
                           /\ key \in {"i", "I", "a", "A", "o", "O", "C"})
                     \/ (pending /\ m.commandState.operator = "c"
                           /\ key \in MotionKeys \cup {"c"})
               \/ (m.mode = Insert /\ r.mode = Normal
                     /\ key = "esc" /\ ~m.completionState.Active)
               \/ (m.mode = Normal /\ r.mode = Visual /\ key = "v")
               \/ (m.mode = Visual /\ r.mode = Normal /\ key \in {"esc", "d", "x", "y"})
         IN /\ (r.mode # m.mode) => allowed
            /\ (idle(m) /\ key \in {"i", "I", "a", "A", "o", "O", "C"}) => r.mode = Insert
            /\ (m.mode = Normal /\ pending /\ m.commandState.operator = "c"
                  /\ key \in (MotionKeys \ Digits) \cup {"c"}) => r.mode = Insert
            /\ (idle(m) /\ key = "v") => r.mode = Visual
            /\ (m.mode = Insert /\ key = "esc" /\ ~m.completionState.Active)
                 => r.mode = Normal
            /\ (m.mode = Visual /\ key \in {"esc", "d", "x", "y"}) => r.mode = Normal

\* Visual mode with a selection on a two-line buffer: entered by v from
\* Normal mode, which was entered by Esc from the initial Insert mode
ModeChangedTwice ==
    /\ m.mode = Visual
    /\ m.selection # NoSelection
    /\ Len(m.content) = 2

(* ------------- motions over buffers set through the public API ---------- *)
\* the buffers handed to SetValue: at most MotionLines lines of at most
\* MotionLineLen bytes; counts typed up to MotionCount
MotionLines == 3
MotionLineLen == 2
MotionCount == 3

\* SetValue as it would be if replacing the text also dropped the undo history
SetValueForgetsHistory(model, value) ==
    [model EXCEPT !.content = Split(value), !.cursor = Pos(0, 0),
                  !.undoHistory = New.undoHistory]

\* SetValue(value string)
SetValue(model, value) == [model EXCEPT !.content = Split(value), !.cursor = Pos(0, 0)]

BoundedLines == UNION {[1..n -> TextKeys] : n \in 0..MotionLineLen}

BoundedBuffers == UNION {[1..n -> BoundedLines] : n \in 1..MotionLines}

\* New(), SetValue(text), then Esc: Normal mode on the text, cursor (0,0)
InitMotion ==
    /\ \E lines \in BoundedBuffers : m = handleKeyMsg(SetValue(New, Join(lines)), "esc")
    /\ nKeys = 0 /\ viewportHeight = 0

\* the count digits and the cursor motions of Normal mode
MotionSpecKeys ==
    {"1", "2", "3", "h", "j", "k", "l", "w", "W", "b", "B", "e", "E", "0", "^", "_", "$", "G"}

MotionKey ==
    /\ \E key \in MotionSpecKeys :
         /\ handleKeyMsg(m, key).inputCount <= MotionCount
         /\ m' = handleKeyMsg(m, key)
    /\ UNCHANGED <<nKeys, viewportHeight>>

\* the engine in Normal mode on every bounded buffer, under counted motions
SpecMotion == InitMotion /\ [][MotionKey]_vars

\* C24: for each of the motions h, l, j, k, w, W, b, B, e, E and every count
\* n >= 1 the motion typed once with count n leaves the cursor where typing
\* it n times without a count does.
CountEqualsRepeatedSteps ==
    idle(m) =>
      \A key \in {"h", "l", "j", "k", "w", "W", "b", "B", "e", "E"}, n \in 1..MotionCount :
        pressKeys(m, countKeys(n) \o <<key>>).cursor = pressKeys(m, times(key, n)).cursor

\* C25: one e step lands on the last character of the nearest word whose last
\* character lies strictly after the cursor, in this line or a following one;
\* so the cursor stays put only if no later word exists in the buffer.  A
\* word is a run of bytes that are neither blank nor punctuation.
WordEndLandsOnNearest ==
    idle(m) =>
      LET isWordEnd(row, col) ==
            LET line == At(m.content, row)
            IN /\ ~isWordBoundary(At(line, col), FALSE)
               /\ (col + 1 >= Len(line) \/ isWordBoundary(At(line, col + 1), FALSE))
          laterEnds ==
            {p \in {Pos(row, col) : row \in 0..(Len(m.content) - 1),
                                    col \in 0..(MotionLineLen + MaxLineLen)} :
               /\ p.Col < Len(At(m.content, p.Row))
               /\ isWordEnd(p.Row, p.Col)
               /\ before(m.cursor, p)}
          landed == handleKeyMsg(m, "e").cursor
      IN (laterEnds # {})
           => /\ landed \in laterEnds
              /\ \A p \in laterEnds : p = landed \/ before(landed, p)

\* C26: the first-non-blank motion (^ or _) puts the cursor on the column of
\* the first non-whitespace byte of the current line, and on column 0 when
\* the line is empty or all whitespace, whatever the cursor column was.
FirstNonBlankColumn ==
    idle(m) =>
      \A key \in {"^", "_"} :
        LET line == At(m.content, m.cursor.Row)
            nonBlank == {i \in 0..(Len(line) - 1) : ~IsSpace(At(line, i))}
            first == IF nonBlank = {} THEN 0
                     ELSE CHOOSE i \in nonBlank : \A j \in nonBlank : i <= j
        IN handleKeyMsg(m, key).cursor = Pos(m.cursor.Row, first)

\* C27: G with a typed count n >= 1 moves the cursor to row
\* min(n, lineCount) - 1, for n = 1 as for every other n; G without a count
\* moves it to the last line.
CountedGoesToLine ==
    idle(m) =>
      /\ handleKeyMsg(m, "G").cursor.Row = Len(m.content) - 1
      /\ \A n \in 1..MotionCount :
           LET digit == CASE n = 1 -> "1" [] n = 2 -> "2" [] n = 3 -> "3" [] n = 4 -> "4"
           IN pressKeys(m, <<digit, "G">>).cursor.Row = Min(n, Len(m.content)) - 1

(* --------------------------- yank and paste ---------------------------- *)
\* New(), SetValue(text), then Esc, for every text of at most MaxLines lines
\* of at most MaxLineLen bytes
InitYank ==
    /\ \E n \in 1..MaxLines :
         \E lines \in [1..n -> UNION {[1..k -> TextKeys] : k \in 0..MaxLineLen}] :
           m = handleKeyMsg(SetValue(New, Join(lines)), "esc")
    /\ nKeys = 0 /\ viewportHeight = 0

\* the cursor motions that bring the cursor to every position of the buffer
CursorKeys == {"h", "j", "k", "l", "w", "b", "e", "0", "$", "G"}

CursorKey == (\E key \in CursorKeys : m' = handleKeyMsg(m, key)) /\ UNCHANGED <<nKeys, viewportHeight>>

\* the engine in Normal mode on every small buffer, the cursor anywhere
SpecYank == InitYank /\ [][CursorKey]_vars

\* the motions that can move the cursor forward within its line
ForwardMotions == {"l", "w", "W", "e", "E", "$"}

\* y{motion} with motion count k yanks a non-empty range of the cursor line
\* that starts at the cursor
yanksWithinLine(model, motion, k) ==
    /\ idle(model)
    /\ \E target \in {motionTarget(model, motion, k)} :
         /\ target.Row = model.cursor.Row
         /\ target.Col > model.cursor.Col

\* C28: after y{forward motion} over a non-empty range of one line that starts
\* at the cursor, followed by P at the same cursor, the cursor line is the
\* original with the yanked text inserted at the cursor column, so that the
\* range occurs twice in a row; every other line is unchanged and the
\* clipboard still holds the yanked text.
YankPasteBeforeRoundTrip ==
    \A motion \in ForwardMotions, k \in 1..MaxCount :
      yanksWithinLine(m, motion, k) =>
        \A yanked \in {pressKeys(m, <<"y">> \o countKeys(k) \o <<motion>>)} :
          \A pasted \in {handleKeyMsg(yanked, "P")} :
            LET row == m.cursor.Row
                col == m.cursor.Col
                line == At(m.content, row)
                text == yanked.clipboard
            IN /\ text # <<>>
               /\ text = Slice(line, col, col + Len(text))
               /\ yanked.cursor = m.cursor
               /\ yanked.content = m.content
               /\ pasted.content
                    = SetAt(m.content, row,
                            Slice(line, 0, col) \o text \o Slice(line, col, Len(line)))
               /\ pasted.clipboard = text

\* C28 witness: the cursor is inside a line, two bytes before its end, and
\* yw followed by P doubles the rest of the line
RangeYankedAndPasted ==
    /\ yanksWithinLine(m, "w", 1)
    /\ m.cursor.Col = 0
    /\ Len(At(m.content, m.cursor.Row)) = 2
    /\ Len(pressKeys(m, <<"y", "w">>).clipboard) = 2
    /\ Len(At(pressKeys(m, <<"y", "w", "P">>).content, m.cursor.Row)) = 4

\* C29: after {n}yy followed by p the buffer is the original with the n yanked
\* lines, the cursor line and the lines below it up to the last line,
\* inserted as whole new lines directly below the cursor row, and no existing
\* line is altered, for every n >= 1.
LineYankPasteRoundTrip ==
    idle(m) =>
      \A n \in 1..MaxCount :
        \A pasted \in {pressKeys(m, countKeys(n) \o <<"y", "y", "p">>)} :
          LET row == m.cursor.Row
              yankedLines == Slice(m.content, row, Min(row + n, Len(m.content)))
          IN pasted.content
               = Slice(m.content, 0, row + 1) \o yankedLines
                   \o Slice(m.content, row + 1, Len(m.content))

\* C30: Y stores in the clipboard exactly the rest of the current line from
\* the cursor column on, the text D removes from the same state, and leaves
\* buffer and cursor unchanged.
YankToEndOfLine ==
    idle(m) =>
      \A yanked \in {handleKeyMsg(m, "Y")} :
        LET line == At(m.content, m.cursor.Row)
        IN /\ yanked.clipboard = Slice(line, m.cursor.Col, Len(line))
           /\ yanked.clipboard = handleKeyMsg(m, "D").clipboard
           /\ yanked.content = m.content
           /\ yanked.cursor = m.cursor

(* ---------------------------- Visual mode ------------------------------ *)
\* C31: Visual-mode d or x over any selection removes the selected text,
\* writes exactly that text to the clipboard (the text Visual y stores for the
\* same selection), moves the cursor to the selection start and returns to
\* Normal mode with the selection cleared.
VisualDeleteStoresSelection ==
    (m.mode = Visual /\ m.selection # NoSelection) =>
      \A key \in {"d", "x"} :
        \A r \in {handleKeyMsg(m, key)} :
          LET n == normalizeSelection(m.selection)
              expected == withoutRange(m.content, n.Start, n.End)
          IN /\ r.content = expected.lines
             /\ r.clipboard = expected.removed
             /\ r.clipboard = handleKeyMsg(m, "y").clipboard
             /\ r.cursor = validateCursor(r, n.Start)
             /\ r.mode = Normal
             /\ r.selection = NoSelection

(* --------------------------- change commands --------------------------- *)
\* C32: for every buffer, cursor, counts and motion, c{motion} leaves the
\* buffer lines and the clipboard d{motion} leaves from the same state, with
\* the cursor at the start of the removed range, the mode Insert and an insert
\* session in progress; likewise cc against dd and C against D.
ChangeIsDeleteThenInsert ==
    idle(m) =>
      /\ \A n \in 1..MaxCount, k \in 1..MaxCount, motion \in MotionKeys \cup {"c"} :
           \A changed \in {pressKeys(m, operatorKeys(n, "c", k, motion))} :
             \A deleted \in {pressKeys(m, operatorKeys(n, "d", k,
                                                      IF motion = "c" THEN "d" ELSE motion))} :
               LET target == motionTarget(m, motion, k)
                   start == IF before(target, m.cursor) THEN target ELSE m.cursor
               IN /\ changed.content = deleted.content
                  /\ changed.clipboard = deleted.clipboard
                  /\ changed.mode = Insert
                  /\ changed.inInsertSession
                  /\ (motion # "c") => changed.cursor = start
                  /\ (motion = "c") => changed.cursor.Col = 0
      /\ \A changed \in {handleKeyMsg(m, "C")} :
           /\ changed.content = handleKeyMsg(m, "D").content
           /\ changed.clipboard = handleKeyMsg(m, "D").clipboard
           /\ changed.mode = Insert
           /\ changed.inInsertSession
           /\ changed.cursor = m.cursor

(* ------------------------ Normal-mode checkpoints ----------------------- *)
\* the Normal-mode commands that can change the buffer lines
MutatingCommands ==
    {<<"x">>, <<"r", "a">>, <<"r", " ">>, <<"D">>, <<"d", "d">>, <<"p">>, <<"P">>}
      \cup {<<"d", motion>> : motion \in MotionKeys \ {"0"}}

\* C33: from a Normal-mode state whose current snapshot equals the buffer,
\* every Normal-mode command that changes the buffer lines (x, r{char}, D, dd,
\* d{motion}, p, P) appends exactly one checkpoint whose lines are the
\* resulting buffer, so that one undo right after it restores the buffer from
\* before the command.
MutationIsOneCheckpoint ==
    (idle(m) /\ m.undoHistory.index >= 0 /\ currentSnapshot(m).content = m.content) =>
      \A command \in MutatingCommands :
        \A r \in {pressKeys(m, command)} :
          (r.content # m.content) =>
            /\ r.undoHistory.index = m.undoHistory.index + 1
            /\ Len(r.undoHistory.states) = r.undoHistory.index + 1
            /\ Slice(r.undoHistory.states, 0, r.undoHistory.index)
                 = Slice(m.undoHistory.states, 0, m.undoHistory.index + 1)
            /\ currentSnapshot(r).content = r.content
            /\ handleKeyMsg(r, "u").content = m.content

(* ----------------------------- word motion ----------------------------- *)
\* C34: from a cursor position before the start of the last word of the
\* buffer, one w step puts the cursor on a position strictly later in
\* row-major order, also when the cursor is on a punctuation byte or the
\* current word is directly followed by one.
WordForwardProgress ==
    idle(m) =>
      LET isWordStart(row, col) ==
            LET line == At(m.content, row)
            IN /\ ~isWordBoundary(At(line, col), FALSE)
               /\ (col = 0 \/ isWordBoundary(At(line, col - 1), FALSE))
          laterStarts ==
            {p \in {Pos(row, col) : row \in 0..(Len(m.content) - 1),
                                    col \in 0..(MotionLineLen + MaxLineLen)} :
               /\ p.Col < Len(At(m.content, p.Row))
               /\ isWordStart(p.Row, p.Col)
               /\ before(m.cursor, p)}
      IN (laterStarts # {}) => before(m.cursor, handleKeyMsg(m, "w").cursor)

(* --------------------------- pending commands -------------------------- *)
\* C35: in every reachable state awaiting-motion and awaiting-replace-character
\* are never both true and each is true only in Normal mode; while
\* awaiting-motion is true the pending operator is d, y or c, and while it is
\* false the pending operator is empty and operator count and motion count
\* are zero.
PendingFlagsConsistent ==
    /\ ~(m.commandState.awaitingMotion /\ m.awaitingReplaceChar)
    /\ m.commandState.awaitingMotion => m.mode = Normal
    /\ m.awaitingReplaceChar => m.mode = Normal
    /\ m.commandState.awaitingMotion => m.commandState.operator \in {"d", "y", "c"}
    /\ ~m.commandState.awaitingMotion
         => /\ m.commandState.operator = ""
            /\ m.commandState.count = 0
            /\ m.commandState.motionCount = 0

\* C35 witness: the change operator is pending on a two-line buffer with an
\* operator count and a motion count typed
OperatorPendingWithCounts ==
    /\ m.commandState.awaitingMotion
    /\ m.commandState.operator = "c"
    /\ m.commandState.count = 2
    /\ m.commandState.motionCount = 2
    /\ Len(m.content) = 2

\* C36: in every reachable state a selection exists exactly when the mode is
\* Visual; v sets its start to the cursor position at that moment, and after
\* every Visual-mode motion the start is unchanged and the end is the current
\* cursor.
SelectionIffVisual ==
    /\ (m.selection # NoSelection) <=> (m.mode = Visual)
    /\ (m.mode = Visual) => m.selection.End = m.cursor
    /\ idle(m)
         => \A r \in {handleKeyMsg(m, "v")} :
              /\ r.mode = Visual
              /\ r.selection = [Start |-> m.cursor, End |-> m.cursor]
    /\ (m.mode = Visual)
         => \A key \in {"h", "j", "k", "l", "left", "down", "up", "right"} :
              \A r \in {handleKeyMsg(m, key)} :
                /\ r.mode = Visual
                /\ r.selection.Start = m.selection.Start
                /\ r.selection.End = r.cursor

\* C36 witness: a Visual-mode selection whose end has moved away from its
\* start onto another line
SelectionExtended ==
    /\ m.mode = Visual
    /\ m.selection # NoSelection
    /\ m.selection.Start.Row # m.selection.End.Row
    /\ m.selection.End = m.cursor

(* ------------------------------ clipboard ------------------------------ *)
\* C37: a key event changes the clipboard only when it completes a yank,
\* delete or change command (y, d or c with its motion or line-wise, D, C, Y,
\* Visual d, x, y); cursor motions, x, r, Insert-mode typing, p, P, undo and
\* redo leave it unchanged.  Checked for every key event the specification
\* takes from the state.
ClipboardChangesOnlyOnYankDelete ==
    \A key \in (IF nKeys < MaxKeys THEN KeysOf(m.mode) ELSE {}) :
      \A r \in {handleKeyMsg(m, key)} :
        (r.clipboard # m.clipboard) =>
          \/ /\ m.mode = Normal
             /\ m.commandState.awaitingMotion
             /\ key \in MotionKeys \cup {m.commandState.operator}
          \/ /\ m.mode = Normal
             /\ ~m.commandState.awaitingMotion
             /\ ~m.awaitingReplaceChar
             /\ key \in {"D", "C", "Y"}
          \/ (m.mode = Visual /\ key \in {"d", "x", "y"})

\* C37 witness: the clipboard holds text and redo history exists; x and undo
\* from this state change the buffer and leave the clipboard as it is
ClipboardSurvivedUndo ==
    /\ idle(m)
    /\ m.clipboard # <<>>
    /\ m.undoHistory.index < Len(m.undoHistory.states) - 1
    /\ handleKeyMsg(m, "x").clipboard = m.clipboard
    /\ handleKeyMsg(m, "x").content # m.content
    /\ handleKeyMsg(m, "u").clipboard = m.clipboard
    /\ handleKeyMsg(m, "u").content # m.content

(* ------------------------- snapshot immutability ------------------------ *)
\* C38: once a snapshot is stored no later key event changes the lines or the
\* cursor held in it until it is evicted or truncated: after every key event
\* the snapshots up to the old index are those of before, and so are the
\* snapshots above it unless the key saved a checkpoint, which truncates them.
SnapshotsImmutable ==
    \A key \in (IF m.mode = Normal THEN EditNormalKeys ELSE EditInsertKeys) :
      \A r \in {handleKeyMsg(m, key)} :
        LET h == m.undoHistory
            g == r.undoHistory
            saved == /\ key \notin {"u", "ctrl+r"}
                     /\ g.index = h.index + 1
                     /\ Len(g.states) = g.index + 1
        IN \A i \in 0..(Len(h.states) - 1) :
             (i <= h.index \/ ~saved)
               => (i < Len(g.states) /\ At(g.states, i) = At(h.states, i))

(* ------------------------- the host's SetValue -------------------------- *)
\* the texts handed to SetValue: the empty text the host clears the input
\* with, one line, and two lines
SetValueTexts == {<<>>, <<"a">>, <<"a", NL, " ">>}

\* tui Update: Enter in Normal mode with the popup closed, or ctrl+s in Insert
\* or Visual mode, with a non-empty Value(): the host takes the text and calls
\* SetValue(""); the key is not passed on to the engine
HostSend ==
    /\ Join(m.content) # <<>>
    /\ \/ (m.mode = Normal /\ ~m.completionState.Active)
       \/ m.mode \in {Insert, Visual}
    /\ nKeys < MaxKeys
    /\ m' = SetValue(m, <<>>)
    /\ nKeys' = nKeys + 1
    /\ UNCHANGED viewportHeight

\* deleteSelection and yankSelection index the buffer with the rows and
\* columns of the selection; Go ends the program with an index-out-of-range
\* panic when these lie outside the buffer
selectionOutsideBuffer(model) ==
    /\ model.selection # NoSelection
    /\ LET n == normalizeSelection(model.selection)
       IN \/ n.End.Row >= Len(model.content)
          \/ n.Start.Col > Len(At(model.content, n.Start.Row))
          \/ n.End.Col > Len(At(model.content, n.End.Row))

\* SetHeight(height int): the Model adjustScroll returns is dropped
SetHeight(model, height) == [model EXCEPT !.height = height]

\* SetCompletionEngine(engine)
SetCompletionEngine(model) == [model EXCEPT !.completionEngine = TRUE]

\* Value()
Value(model) == Join(model.content)

\* strings.Count(s, "\n")
CountNL(s) == Cardinality({i \in 1..Len(s) : s[i] = NL})

\* the tail of the host's Update: the engine gets as many rows as it has
\* lines, at most half the viewport and at most 12, at least 1
adjustHeight(model, viewport) ==
    LET lines == CountNL(Value(model)) + 1
        maxHeight == Min(Max(viewport \div 2, 1), 12)
        height == Min(Max(lines, 1), maxHeight)
    IN IF height # model.height THEN SetHeight(model, height) ELSE model

\* the keys the host passes on to the engine: those of its mode, and Enter
\* in Normal mode while the popup is open
HostKeysOf(model) ==
    KeysOf(model.mode)
      \cup (IF model.mode = Normal /\ model.completionState.Active THEN {"enter"} ELSE {})

\* the host's Update(tea.KeyMsg) for a key it passes on: the engine's Update,
\* then the height adjustment; a run ends where the key handler panics
HostKey ==
    /\ nKeys < MaxKeys
    /\ \E key \in HostKeysOf(m) :
         /\ ~(m.mode = Visual /\ key \in {"d", "x", "y"} /\ selectionOutsideBuffer(m))
         /\ \E r \in {adjustHeight(handleKeyMsg(m, key), viewportHeight)} :
              /\ WithinBounds(r, MaxLineLen)
              /\ m' = r
    /\ nKeys' = nKeys + 1
    /\ UNCHANGED viewportHeight

\* the terminal sizes of the host: three rows, and twenty-four
ViewportHeights == {3, 24}

\* the host's Update(tea.WindowSizeMsg): the viewport takes the new size; the
\* engine's height follows at the next key
HostResize ==
    /\ nKeys < MaxKeys
    /\ \E rows \in ViewportHeights \ {viewportHeight} : viewportHeight' = rows
    /\ nKeys' = nKeys + 1
    /\ UNCHANGED m

\* NewModel(): New(), SetHeight(1), SetCompletionEngine(engine); no
\* WindowSizeMsg yet
InitHost ==
    /\ m = SetCompletionEngine(SetHeight(New, 1))
    /\ nKeys = 0
    /\ viewportHeight = 0

NextHost == HostKey \/ HostSend \/ HostResize

\* the engine under the host: keys of its mode, the host sending the text
\* and the terminal resized at any time, runs of up to MaxKeys messages
SpecHost == InitHost /\ [][NextHost]_vars

\* C39: SetValue sets the buffer to the lines of the given text and the cursor
\* to (0,0) and changes nothing else: mode, clipboard, pending command and
\* counts, scroll offset, undo history and undo index are those of before, so
\* that an undo after it brings back the lines of the snapshot below the
\* index, text from before the SetValue.
SetValueChangesOnlyText ==
    \A value \in SetValueTexts :
      \A r \in {SetValue(m, value)} :
        /\ r.content = Split(value)
        /\ r.cursor = Pos(0, 0)
        /\ r.mode = m.mode
        /\ r.clipboard = m.clipboard
        /\ r.commandState = m.commandState
        /\ r.inputCount = m.inputCount
        /\ r.awaitingReplaceChar = m.awaitingReplaceChar
        /\ r.replaceCount = m.replaceCount
        /\ r.scrollOffset = m.scrollOffset
        /\ r.undoHistory = m.undoHistory
        /\ (idle(m) /\ m.undoHistory.index > 0)
             => handleKeyMsg(r, "u").content
                  = At(m.undoHistory.states, m.undoHistory.index - 1).content

\* C39 witness: the host has cleared the text in Normal mode; the history
\* still ends in a snapshot with text and an undo brings text back
ClearedTextComesBack ==
    /\ idle(m)
    /\ m.content = << <<>> >>
    /\ m.undoHistory.index > 0
    /\ currentSnapshot(m).content # << <<>> >>
    /\ handleKeyMsg(m, "u").content # << <<>> >>

====
